---- MODULE Spec2Model ----
(***************************************************************************)
(* Model of the teyit validation engine.  The repository holds several     *)
(* evolutions of the same validate function; three of them are modelled    *)
(* side by side and told apart by the impl field of a call:                *)
(*   "engine"  src/src/utils/Engine.util.ts            (traverse, throws)  *)
(*   "part001" src/unnamed/part_001 lines 32-310       (traverse, collect) *)
(*   "convert" src/src/utils/ConvertToJSONSchema.util.ts lines 121-403     *)
(*             (recursive processProperty, builds a new result)            *)
(* JavaScript values are tagged records, strings are sequences of          *)
(* characters, objects and arrays are ordered sequences of entries.        *)
(* Macrotasks (timers) and microtasks (await continuations) are the        *)
(* actions; everything a task runs synchronously is one step.              *)
(***************************************************************************)
EXTENDS Integers, Sequences, FiniteSets, TLC

VARIABLES calls, shared_schema, regexes

vars == <<calls, shared_schema, regexes>>

(***************************************************************************)
(* Bounds of the model.                                                    *)
(***************************************************************************)
MaxStrLen == 3

MaxMembers == 2

MaxItems == 3

(***************************************************************************)
(* Sequencing.  Op applied to the value of x: x is worked out once, as a   *)
(* statement's result is in the program, however often Op's definition     *)
(* names its argument.                                                     *)
(***************************************************************************)
Once(x, Op(_)) == CHOOSE y \in {Op(v) : v \in {x}} : TRUE

(***************************************************************************)
(* JavaScript values.                                                      *)
(***************************************************************************)
Undefined == [t |-> "undefined"]

Null == [t |-> "null"]

Str(s) == [t |-> "string", s |-> s]

Num(n) == [t |-> "number", n |-> n, half |-> FALSE]

NumHalf(n) == [t |-> "number", n |-> n, half |-> TRUE]

\* the number NaN
NaN == [t |-> "number", n |-> 0, half |-> FALSE, nan |-> TRUE]

IsNaN(v) == "nan" \in DOMAIN v

Bool(b) == [t |-> "boolean", b |-> b]

DateV(n) == [t |-> "date", n |-> n]

Obj(e) == [t |-> "object", e |-> e]

Arr(e) == [t |-> "array", e |-> e, len |-> Len(e)]

Entry(k, v) == [k |-> k, v |-> v]

IsContainer(v) == v.t \in {"object", "array"}

\* typeof v (a Date and an array are 'object', null is 'object')
TypeOf(v) ==
  CASE v.t = "undefined" -> "undefined"
    [] v.t = "string" -> "string"
    [] v.t = "number" -> "number"
    [] v.t = "boolean" -> "boolean"
    [] v.t = "bigint" -> "bigint"
    [] OTHER -> "object"

IsArray(v) == v.t = "array"

\* typeof v === 'object' && v !== null && !Array.isArray(v)
IsPlainObject(v) == TypeOf(v) = "object" /\ v.t # "null" /\ ~IsArray(v)

EntriesOf(v) == IF IsContainer(v) THEN v.e ELSE <<>>

Keys(v) == IF IsContainer(v) THEN [i \in 1..Len(v.e) |-> v.e[i].k] ELSE <<>>

Has(v, k) == IsContainer(v) /\ \E i \in 1..Len(v.e) : v.e[i].k = k

Get(v, k) ==
  IF Has(v, k) THEN v.e[CHOOSE i \in 1..Len(v.e) : v.e[i].k = k].v ELSE Undefined

\* v[k] = x: replaces the entry in place or appends a new key at the end
Put(v, k, x) ==
  IF Has(v, k)
  THEN [v EXCEPT !.e = [i \in 1..Len(v.e) |->
                          IF v.e[i].k = k THEN Entry(k, x) ELSE v.e[i]]]
  ELSE [v EXCEPT !.e = Append(v.e, Entry(k, x))]

\* delete v[k]: an array keeps its length and gets a hole
Remove(v, k) ==
  [v EXCEPT !.e = SelectSeq(v.e, LAMBDA en : en.k # k)]

RECURSIVE GetAt(_, _)
GetAt(v, path) ==
  IF path = <<>> THEN v ELSE GetAt(Get(v, Head(path)), Tail(path))

RECURSIVE PutAt(_, _, _)
PutAt(v, path, x) ==
  IF path = <<>> THEN x
  ELSE IF Len(path) = 1 THEN Put(v, path[1], x)
  ELSE Put(v, Head(path), PutAt(Get(v, Head(path)), Tail(path), x))

RECURSIVE RemoveAt(_, _)
RemoveAt(v, path) ==
  IF Len(path) = 1 THEN Remove(v, path[1])
  ELSE Put(v, Head(path), RemoveAt(Get(v, Head(path)), Tail(path)))

RECURSIVE HasAt(_, _)
HasAt(v, path) ==
  IF path = <<>> THEN TRUE
  ELSE Has(v, Head(path)) /\ HasAt(Get(v, Head(path)), Tail(path))

(***************************************************************************)
(* Strings: sequences over a small alphabet.                               *)
(***************************************************************************)
Chars == {" ", "t", "T"}

Digits == <<"0", "1", "2", "3", "4", "5", "6", "7", "8", "9">>

IsDigit(c) == \E i \in 1..Len(Digits) : Digits[i] = c

DigitValue(c) == (CHOOSE i \in 1..Len(Digits) : Digits[i] = c) - 1

IsSpace(c) == c = " "

RECURSIVE TrimStart(_)
TrimStart(s) ==
  IF s = <<>> THEN s ELSE IF IsSpace(Head(s)) THEN TrimStart(Tail(s)) ELSE s

RECURSIVE TrimEnd(_)
TrimEnd(s) ==
  IF s = <<>> THEN s
  ELSE IF IsSpace(s[Len(s)]) THEN TrimEnd(SubSeq(s, 1, Len(s) - 1)) ELSE s

Trim(s) == TrimEnd(TrimStart(s))

LowerChar(c) == IF c = "T" THEN "t" ELSE c

UpperChar(c) == IF c = "t" THEN "T" ELSE c

ToLowerCase(s) == [i \in 1..Len(s) |-> LowerChar(s[i])]

ToUpperCase(s) == [i \in 1..Len(s) |-> UpperChar(s[i])]

\* String(n) for the integers the model uses
NumToString(n) ==
  LET abs == IF n < 0 THEN 0 - n ELSE n
      ds  == IF abs < 10 THEN <<Digits[abs + 1]>>
             ELSE <<Digits[(abs \div 10) + 1], Digits[(abs % 10) + 1]>>
  IN IF n < 0 THEN <<"-">> \o ds ELSE ds

\* /^\d+$/.test(key), keys being single tokens
IsIndexKey(key) == IsDigit(key)

IndexKey(i) == Digits[i + 1]

\* formatPath with an index key written after a '.' like any other key
RECURSIVE formatPathDotted(_)
formatPathDotted(path_array) ==
  IF path_array = <<>> THEN <<>>
  ELSE IF Len(path_array) = 1 THEN <<Head(path_array)>>
  ELSE <<Head(path_array), ".">> \o formatPathDotted(Tail(path_array))

\* the text of a key inside a formatted path: the empty key adds nothing
KeyText(key) == IF key = "" THEN <<>> ELSE <<key>>

\* the reduce of formatPath from the accumulator acc on; acc === '' is the
\* test the code makes for the first key
RECURSIVE FormatPathFrom(_, _)
FormatPathFrom(acc, path_array) ==
  IF path_array = <<>> THEN acc
  ELSE LET key == Head(path_array)
       IN FormatPathFrom(
            IF IsIndexKey(key) THEN acc \o <<"[", key, "]">>
            ELSE IF acc = <<>> THEN KeyText(key)
            ELSE acc \o <<".">> \o KeyText(key),
            Tail(path_array))

formatPath(path_array) == FormatPathFrom(<<>>, path_array)

(***************************************************************************)
(* Schemas.  A field-name mapping is kind "map", a single node is kind     *)
(* "node", a JavaScript array of nodes or of mappings is kind "union".     *)
(* Optional attributes are [has |-> FALSE] when the key is not written.    *)
(***************************************************************************)
NoThing == [kind |-> "none"]

Unset == [has |-> FALSE]

SomeNum(n) == [has |-> TRUE, n |-> n]

SomeEnum(items) == [has |-> TRUE, items |-> items]

SomePattern(p) == [has |-> TRUE, p |-> p]

SomeBool(b) == [has |-> TRUE, b |-> b]

SomeDate(s) == [has |-> TRUE, s |-> s]

Map(e) == [kind |-> "map", e |-> e]

Union(alts) == [kind |-> "union", alts |-> alts]

StringNode ==
  [kind |-> "node", type |-> "string", nullable |-> FALSE, required |-> TRUE,
   default |-> Undefined, enum |-> Unset, pattern |-> Unset, min |-> Unset,
   max |-> Unset, trim |-> Unset, lowercase |-> Unset, uppercase |-> Unset]

NumberNode ==
  [kind |-> "node", type |-> "number", nullable |-> FALSE, required |-> TRUE,
   default |-> Undefined, enum |-> Unset, min |-> Unset, max |-> Unset,
   integer |-> Unset, positive |-> Unset, negative |-> Unset]

BooleanNode ==
  [kind |-> "node", type |-> "boolean", nullable |-> FALSE, required |-> TRUE,
   default |-> Undefined]

DateNode ==
  [kind |-> "node", type |-> "date", nullable |-> FALSE, required |-> TRUE,
   default |-> Undefined, min |-> Unset, max |-> Unset]

ObjectNode(properties) ==
  [kind |-> "node", type |-> "object", nullable |-> FALSE, required |-> TRUE,
   default |-> Undefined, properties |-> properties]

ArrayNode(items) ==
  [kind |-> "node", type |-> "array", nullable |-> FALSE, required |-> TRUE,
   default |-> Undefined, min |-> Unset, max |-> Unset, items |-> items]

\* Array.isArray(schema)
IsUnion(schema) == schema.kind = "union"

\* typeof schema === 'object'
IsSchemaObject(schema) == schema.kind \in {"map", "node", "union"}

MapHas(schema, key) ==
  schema.kind = "map" /\ \E i \in 1..Len(schema.e) : schema.e[i].k = key

MapGet(schema, key) ==
  schema.e[CHOOSE i \in 1..Len(schema.e) : schema.e[i].k = key].v

\* a schema read as a Record<string, Type>: the keys of an array are its
\* indices
RecordOf(schema) ==
  IF schema.kind = "union"
  THEN Map([i \in 1..Len(schema.alts) |-> [k |-> Digits[i], v |-> schema.alts[i]]])
  ELSE schema

\* 'type' in schema: true of every node, and of a mapping that declares a
\* field named type
HasTypeKey(schema) == schema.kind = "node" \/ MapHas(schema, "type")

\* schema.type === ty
TypeIs(schema, ty) == schema.kind = "node" /\ schema.type = ty

\* a flag attribute compared with === true
IsTrue(attr) == attr.has /\ attr.b

\* a flag attribute compared with !== false
NotFalse(attr) == ~attr.has \/ attr.b

(***************************************************************************)
(* Union Resolver and Schema Locator.                                      *)
(***************************************************************************)
\* the predicate handed to schema.find in getSchema and findMatchedSchema
MatchesCandidate(schema, property) ==
  IF property.t = "null" THEN schema.kind = "node" /\ schema.nullable
  ELSE IF TypeIs(schema, "date") THEN property.t \in {"string", "date"}
  ELSE IF TypeIs(schema, "array") THEN IsArray(property)
  ELSE IF TypeIs(schema, "object")
    THEN TypeOf(property) = "object" /\ ~IsArray(property)
  ELSE schema.kind = "node" /\ TypeOf(property) = schema.type

\* a resolver that always takes the first candidate
findFirstSchema(schemaUnion, property) == schemaUnion[1]

findMatchedSchema(schemaUnion, property) ==
  LET hits == {i \in 1..Len(schemaUnion) : MatchesCandidate(schemaUnion[i], property)}
  IN IF hits = {} THEN schemaUnion[1]
     ELSE schemaUnion[CHOOSE i \in hits : \A j \in hits : i <= j]

RECURSIVE getSchema(_, _, _)
RECURSIVE getSchemaFirst(_, _, _, _)
getSchemaFirst(alts, i, path_array, property) ==
  IF i > Len(alts) THEN NoThing
  ELSE LET result == getSchema(alts[i], path_array, property)
       IN IF result # NoThing THEN result
          ELSE getSchemaFirst(alts, i + 1, path_array, property)

getSchema(schema, path_array, property) ==
  IF path_array = <<>> THEN
    IF IsUnion(schema) THEN
      IF property = Undefined THEN schema.alts[1]
      ELSE findMatchedSchema(schema.alts, property)
    ELSE IF IsSchemaObject(schema) THEN schema
    ELSE NoThing
  ELSE
    LET key == Head(path_array)
        rest_path == Tail(path_array)
    IN IF IsUnion(schema) THEN getSchemaFirst(schema.alts, 1, path_array, property)
       ELSE IF IsSchemaObject(schema) THEN
         IF HasTypeKey(schema) THEN
           IF TypeIs(schema, "object") /\ "properties" \in DOMAIN schema
             THEN getSchema(schema.properties, path_array, property)
           ELSE IF TypeIs(schema, "array") /\ "items" \in DOMAIN schema
                   /\ IsIndexKey(key)
             THEN getSchema(schema.items, rest_path, property)
           ELSE NoThing
         ELSE IF MapHas(schema, key)
           THEN getSchema(MapGet(schema, key), rest_path, property)
         ELSE NoThing
       ELSE NoThing

(***************************************************************************)
(* Default Seeder.                                                         *)
(***************************************************************************)
RECURSIVE seedMissingProperties(_, _)
RECURSIVE SeedKeys(_, _, _)
SeedKeys(schema, i, properties) ==
  IF i > Len(schema.e) THEN properties
  ELSE
    LET key == schema.e[i].k
        rule == schema.e[i].v
        seeded == IF ~Has(properties, key) THEN Put(properties, key, Undefined)
                  ELSE properties
        child == Get(seeded, key)
        nested == IF TypeIs(rule, "object") /\ "properties" \in DOMAIN rule
                     /\ IsPlainObject(child)
                  THEN Put(seeded, key, seedMissingProperties(rule.properties, child))
                  ELSE seeded
    IN SeedKeys(schema, i + 1, nested)

\* returns the object as the in-place seeding leaves it
seedMissingProperties(schema, properties) ==
  IF schema.kind # "map" \/ ~IsPlainObject(properties) THEN properties
  ELSE SeedKeys(schema, 1, properties)

(***************************************************************************)
(* Regular expressions and dates.  A pattern is named by its source; the   *)
(* model knows the sources below.  A date string is a four-digit year.     *)
(***************************************************************************)
LowerOnly == "^[a-z]+$"

NoSpace == "^\\S*$"

\* a pattern of a malformed schema: new RegExp('(') throws a SyntaxError
BadPattern == "("

\* new RegExp(pattern) returns
RegexCompiles(pattern) == pattern # BadPattern

\* new RegExp(pattern).test(s)
RegexTest(pattern, s) ==
  CASE pattern = LowerOnly -> Len(s) >= 1 /\ \A i \in 1..Len(s) : s[i] = "t"
    [] pattern = NoSpace -> \A i \in 1..Len(s) : ~IsSpace(s[i])
    [] OTHER -> FALSE

\* typof(s)[1] === 'date' for a string
IsDateString(s) == Len(s) = 4 /\ \A i \in 1..4 : IsDigit(s[i])

\* new Date(s).getTime(), in years
DateInstant(s) ==
  1000 * DigitValue(s[1]) + 100 * DigitValue(s[2]) + 10 * DigitValue(s[3])
    + DigitValue(s[4])

\* date(property)
date(property) == DateV(DateInstant(property.s))

\* property < m, property > m and property >= m for a number value and an
\* integer bound: every comparison with NaN is false
NumLess(v, m) == ~IsNaN(v) /\ 2 * v.n + (IF v.half THEN 1 ELSE 0) < 2 * m

NumGreater(v, m) == ~IsNaN(v) /\ 2 * v.n + (IF v.half THEN 1 ELSE 0) > 2 * m

NumAtLeast(v, m) == ~IsNaN(v) /\ 2 * v.n + (IF v.half THEN 1 ELSE 0) >= 2 * m

\* Number.isInteger(v)
IsInteger(v) == ~IsNaN(v) /\ ~v.half

(***************************************************************************)
(* Violations.  rule is the check that failed, tmpl the key of the message *)
(* template the code expands, parts the structured parts mapping.          *)
(***************************************************************************)
Part(k, v) == [k |-> k, v |-> v]

Violation(rule, tmpl, path, parts) ==
  [rule |-> rule, tmpl |-> tmpl, path |-> path,
   parts |-> <<Part("path", path)>> \o parts]

PluralSuffix(n) == IF n > 1 THEN <<"s">> ELSE <<>>

\* what a thrown or rejected error looks like to the caller
ValidationErrorOf(errors) == [type |-> "ValidationError", errors |-> errors]

PlainError(tag) == [type |-> "Error", errors |-> <<>>, tag |-> tag]

IsValidationError(e) == e.type = "ValidationError"

\* the SyntaxError of new RegExp(pattern)
SyntaxError(pattern) == [type |-> "SyntaxError", errors |-> <<>>, tag |-> pattern]

\* new Error(String(error), { cause: error })
Wrapped(error) ==
  [type |-> "Error", errors |-> <<>>, tag |-> "wrapped", cause |-> error]

\* an exception that is not a violation, raised where the checks of a value
\* come to it
Raise(error) ==
  [rule |-> "throw", tmpl |-> "throw", path |-> <<>>, parts |-> <<>>,
   error |-> error]

IsRaise(item) == item.rule = "throw"

(***************************************************************************)
(* Options, each under the name the variant reads it by: the engine        *)
(* variant reads only strip_unknown, the other two read all three.         *)
(***************************************************************************)
Options(abort_early, strip_unknown, sort_keys) ==
  [abort_early |-> abort_early, strip_unknown |-> strip_unknown,
   sort_keys |-> sort_keys]

DefaultOptions == Options(Unset, Unset, Unset)

\* the engine variant has no collection mode
Collects(impl, options) ==
  impl # "engine" /\ options.abort_early.has /\ ~options.abort_early.b

(***************************************************************************)
(* Field Validators.  Each returns the violations it finds, in the order   *)
(* of the checks; stop says that the code returns right after a violation  *)
(* (a type mismatch) instead of going on to the next check.                *)
(***************************************************************************)
\* the value the three this.update calls of the traverse variants leave:
\* each is computed from the callback's parameter
StoredString(equivalent, property) ==
  IF IsTrue(equivalent.uppercase) THEN ToUpperCase(property)
  ELSE IF IsTrue(equivalent.lowercase) THEN ToLowerCase(property)
  ELSE IF NotFalse(equivalent.trim) THEN Trim(property)
  ELSE property

\* let value = property; trim, lowercase, uppercase, each on the previous
ChainedString(equivalent, property) ==
  LET a == IF NotFalse(equivalent.trim) THEN Trim(property) ELSE property
      b == IF IsTrue(equivalent.lowercase) THEN ToLowerCase(a) ELSE a
  IN IF IsTrue(equivalent.uppercase) THEN ToUpperCase(b) ELSE b

\* the string the traverse variants store for the field
NormalizedOutput(impl, equivalent, property) ==
  IF impl = "convert" THEN ChainedString(equivalent, property)
  ELSE StoredString(equivalent, property)

\* the string the enum, pattern and length checks look at
CheckedString(impl, equivalent, property) ==
  IF impl = "convert" THEN ChainedString(equivalent, property) ELSE property

EnumIncludes(equivalent, value) ==
  \E i \in 1..Len(equivalent.enum.items) :
    ChainedString(equivalent, equivalent.enum.items[i]) = value

StringChecks(impl, equivalent, property, path) ==
  LET value == CheckedString(impl, equivalent, property)
      e1 == IF equivalent.enum.has /\ ~EnumIncludes(equivalent, value)
            THEN <<Violation("string.enum", "string.enum", path, <<>>)>> ELSE <<>>
      e2 == IF equivalent.pattern.has /\ ~RegexCompiles(equivalent.pattern.p)
            THEN <<Raise(SyntaxError(equivalent.pattern.p))>>
            ELSE IF equivalent.pattern.has /\ ~RegexTest(equivalent.pattern.p, value)
            THEN <<Violation("string.pattern", "string.pattern", path,
                             <<Part("pattern", <<equivalent.pattern.p>>)>>)>>
            ELSE <<>>
      e3 == IF equivalent.min.has /\ Len(value) < equivalent.min.n
            THEN <<Violation("string.min", "string.min", path,
                             <<Part("min", NumToString(equivalent.min.n)),
                               Part("plural_suffix", PluralSuffix(equivalent.min.n))>>)>>
            ELSE <<>>
      e4 == IF equivalent.max.has /\ Len(value) > equivalent.max.n
            THEN <<Violation("string.max", "string.max", path,
                             <<Part("max", NumToString(equivalent.max.n)),
                               Part("plural_suffix", PluralSuffix(equivalent.max.n))>>)>>
            ELSE <<>>
  IN e1 \o e2 \o e3 \o e4

\* the number checks with positive and negative ahead of the others
NumberChecksSignFirst(equivalent, property, path) ==
  LET e1 == IF equivalent.enum.has
               /\ ~\E i \in 1..Len(equivalent.enum.items) :
                      equivalent.enum.items[i] = property
            THEN <<Violation("number.enum", "number.enum", path, <<>>)>> ELSE <<>>
      e2 == IF equivalent.min.has /\ NumLess(property, equivalent.min.n)
            THEN <<Violation("number.min", "number.min", path,
                             <<Part("min", NumToString(equivalent.min.n))>>)>>
            ELSE <<>>
      e3 == IF equivalent.max.has /\ NumGreater(property, equivalent.max.n)
            THEN <<Violation("number.max", "number.max", path,
                             <<Part("max", NumToString(equivalent.max.n))>>)>>
            ELSE <<>>
      e4 == IF IsTrue(equivalent.integer) /\ ~IsInteger(property)
            THEN <<Violation("number.integer", "number.integer", path, <<>>)>>
            ELSE <<>>
      e5 == IF IsTrue(equivalent.positive) /\ NumLess(property, 0)
            THEN <<Violation("number.positive", "number.positive", path, <<>>)>>
            ELSE <<>>
      e6 == IF IsTrue(equivalent.negative) /\ NumAtLeast(property, 0)
            THEN <<Violation("number.negative", "number.negative", path, <<>>)>>
            ELSE <<>>
  IN e5 \o e6 \o e1 \o e2 \o e3 \o e4

NumberChecks(equivalent, property, path) ==
  LET e1 == IF equivalent.enum.has
               /\ ~\E i \in 1..Len(equivalent.enum.items) :
                      equivalent.enum.items[i] = property
            THEN <<Violation("number.enum", "number.enum", path, <<>>)>> ELSE <<>>
      e2 == IF equivalent.min.has /\ NumLess(property, equivalent.min.n)
            THEN <<Violation("number.min", "number.min", path,
                             <<Part("min", NumToString(equivalent.min.n))>>)>>
            ELSE <<>>
      e3 == IF equivalent.max.has /\ NumGreater(property, equivalent.max.n)
            THEN <<Violation("number.max", "number.max", path,
                             <<Part("max", NumToString(equivalent.max.n))>>)>>
            ELSE <<>>
      e4 == IF IsTrue(equivalent.integer) /\ ~IsInteger(property)
            THEN <<Violation("number.integer", "number.integer", path, <<>>)>>
            ELSE <<>>
      e5 == IF IsTrue(equivalent.positive) /\ NumLess(property, 0)
            THEN <<Violation("number.positive", "number.positive", path, <<>>)>>
            ELSE <<>>
      e6 == IF IsTrue(equivalent.negative) /\ NumAtLeast(property, 0)
            THEN <<Violation("number.negative", "number.negative", path, <<>>)>>
            ELSE <<>>
  IN e1 \o e2 \o e3 \o e4 \o e5 \o e6

\* min and max of a date node; maxTmpl is the template key the variant
\* expands for a max violation
DateChecks(equivalent, converted, path, maxTmpl) ==
  LET e1 == IF equivalent.min.has /\ converted.n < DateInstant(equivalent.min.s)
            THEN <<Violation("date.min", "date.min", path,
                             <<Part("min", equivalent.min.s)>>)>>
            ELSE <<>>
      e2 == IF equivalent.max.has /\ converted.n > DateInstant(equivalent.max.s)
            THEN <<Violation("date.max", maxTmpl, path,
                             <<Part("max", equivalent.max.s)>>)>>
            ELSE <<>>
  IN e1 \o e2

ArrayChecks(equivalent, property, path) ==
  LET e1 == IF equivalent.min.has /\ property.len < equivalent.min.n
            THEN <<Violation("array.min", "array.min", path,
                             <<Part("min", NumToString(equivalent.min.n))>>)>>
            ELSE <<>>
      e2 == IF equivalent.max.has /\ property.len > equivalent.max.n
            THEN <<Violation("array.max", "array.max", path,
                             <<Part("max", NumToString(equivalent.max.n))>>)>>
            ELSE <<>>
  IN e1 \o e2

(***************************************************************************)
(* The traversal of the two traverse variants.  A walk state holds the     *)
(* tree being normalized in place, the collected violations, every         *)
(* violation handed to the reporter so far (reports), the paths whose      *)
(* callback has run (visited), and whether an exception is in flight.      *)
(***************************************************************************)
WalkState(data) ==
  [data |-> data, collected |-> <<>>, reports |-> <<>>, visited |-> <<>>,
   thrown |-> FALSE, error |-> PlainError("none"), injected |-> <<>>]

\* a reporter that keeps only the first violation of a collecting run
reportErrorKeepsFirst(st, collects, error) ==
  IF collects
  THEN [st EXCEPT !.collected = IF @ = <<>> THEN <<error>> ELSE @,
                  !.reports = Append(@, error)]
  ELSE [st EXCEPT !.thrown = TRUE, !.error = ValidationErrorOf(<<error>>),
                  !.reports = Append(@, error)]

\* a reporter that pushes in either mode and never throws
reportErrorNeverThrows(st, collects, error) ==
  [st EXCEPT !.collected = Append(@, error), !.reports = Append(@, error)]

\* reportError: push in collection mode, throw otherwise
reportError(st, collects, error) ==
  IF collects
  THEN [st EXCEPT !.collected = Append(@, error), !.reports = Append(@, error)]
  ELSE [st EXCEPT !.thrown = TRUE, !.error = ValidationErrorOf(<<error>>),
                  !.reports = Append(@, error)]

\* the reporter applied to the violations of one value, in order, until one
\* of them throws
RECURSIVE ReportAll(_, _, _)
ReportAll(st, collects, errors) ==
  IF errors = <<>> \/ st.thrown THEN st
  ELSE IF IsRaise(Head(errors))
    THEN [st EXCEPT !.thrown = TRUE, !.error = Head(errors).error]
  ELSE ReportAll(reportError(st, collects, Head(errors)), collects, Tail(errors))

\* the test made on a null value: !equivalent.nullable && equivalent.default !== null
NullViolates(equivalent) == ~equivalent.nullable /\ equivalent.default # Null

\* what the callback decides for one visited value: the violations it
\* reports in order, the value it leaves (this.update) and whether it
\* deletes the key (this.delete)
Decision(found, node, updated, deleted) ==
  [found |-> found, node |-> node, updated |-> updated, deleted |-> deleted]

\* lines 146-264 of the engine variant, 182-304 of part_001: the dispatch
\* on equivalent.type for a value that is neither null nor handled above
TypeDispatch(impl, equivalent, property, path, updated) ==
  LET fpath == formatPath(path)
      Keep(found) == Decision(found, property, updated, FALSE)
  IN CASE equivalent.type = "string" ->
            IF TypeOf(property) # "string"
            THEN Keep(<<Violation("string.type", "string.type", fpath, <<>>)>>)
            ELSE Decision(StringChecks(impl, equivalent, property.s, fpath),
                          Str(NormalizedOutput(impl, equivalent, property.s)),
                          TRUE, FALSE)
       [] equivalent.type = "number" ->
            IF TypeOf(property) # "number"
            THEN Keep(<<Violation("number.type", "number.type", fpath, <<>>)>>)
            ELSE Keep(NumberChecks(equivalent, property, fpath))
       [] equivalent.type = "boolean" ->
            IF TypeOf(property) # "boolean"
            THEN Keep(<<Violation("boolean.type", "boolean.type", fpath, <<>>)>>)
            ELSE Keep(<<>>)
       [] equivalent.type = "date" ->
            IF TypeOf(property) # "string" \/ ~IsDateString(property.s)
            THEN Keep(<<Violation("date.type", "number.type", fpath, <<>>)>>)
            ELSE Decision(DateChecks(equivalent, date(property), fpath, "date.min"),
                          date(property), TRUE, FALSE)
       [] equivalent.type = "object" ->
            IF ~IsPlainObject(property)
            THEN Keep(<<Violation("object.type", "object.type", fpath, <<>>)>>)
            ELSE Keep(<<>>)
       [] equivalent.type = "array" ->
            IF ~IsArray(property)
            THEN Keep(<<Violation("array.type", "array.type", fpath, <<>>)>>)
            ELSE Keep(ArrayChecks(equivalent, property, fpath))

\* the callback handed to traverse(...).forEach, for a non-root node
CallbackOn(impl, options, path, property, equivalent) ==
  IF equivalent = NoThing
    THEN Decision(<<>>, property, FALSE, IsTrue(options.strip_unknown))
  ELSE IF property = Null
    THEN Decision(IF NullViolates(equivalent)
                  THEN <<Violation("base.nullable", "base.nullable",
                                   formatPath(path), <<>>)>>
                  ELSE <<>>,
                  property, FALSE, FALSE)
  ELSE IF property = Undefined /\ equivalent.default = Undefined /\ equivalent.required
    THEN Decision(<<Violation("base.required", "base.required", formatPath(path), <<>>)>>,
                  property, FALSE, FALSE)
  ELSE IF property = Undefined /\ equivalent.default = Undefined /\ impl # "engine"
    \* part_001: else return
    THEN Decision(<<>>, property, FALSE, FALSE)
  \* an injected default, a present value, or (engine) the undefined of an
  \* optional field, goes on to the checks of its type
  ELSE TypeDispatch(impl, equivalent,
                    IF property = Undefined /\ equivalent.default # Undefined
                    THEN equivalent.default ELSE property,
                    path,
                    property = Undefined /\ equivalent.default # Undefined)

Callback(impl, schema, options, path, property) ==
  CallbackOn(impl, options, path, property, getSchema(schema, path, property))

RECURSIVE Walk(_, _, _, _, _, _, _)
RECURSIVE WalkKeys(_, _, _, _, _, _, _, _, _)
\* this.update(equivalent.default) with a default that is an object or an
\* array: the tree now holds the schema's own object at path, not a copy
InjectsContainer(st, path, attached, d) ==
  /\ attached /\ d.updated /\ ~d.deleted
  /\ GetAt(st.data, path) = Undefined
  /\ IsContainer(d.node)

\* a callback whose this.delete leaves the key in place
AppliedIgnoresDelete(st, path, attached, d) ==
  [st EXCEPT !.visited = Append(@, path),
             !.data = IF attached /\ d.updated /\ ~d.deleted
                      THEN PutAt(@, path, d.node) ELSE @]

\* the tree after the callback's this.update or this.delete at path
Applied(st, path, attached, d) ==
  [st EXCEPT !.visited = Append(@, path),
             !.data = IF ~attached THEN @
                      ELSE IF d.deleted THEN RemoveAt(@, path)
                      ELSE IF d.updated THEN PutAt(@, path, d.node)
                      ELSE @,
             !.injected = IF InjectsContainer(st, path, attached, d)
                          THEN Append(@, path) ELSE @]

\* after the callback: on to the children of the node it left, unless it threw
WalkChildren(impl, schema, options, st, path, d, attached) ==
  IF st.thrown THEN st
  ELSE WalkKeys(impl, schema, options, st, path, d.node, Keys(d.node), 1,
                attached /\ ~d.deleted)

\* the callback's decision d carried out at path
WalkVisit(impl, schema, options, st, path, d, attached) ==
  WalkChildren(impl, schema, options,
               ReportAll(Applied(st, path, attached, d), Collects(impl, options),
                         d.found),
               path, d, attached)

\* walker(node) of the traverse package: the callback, then the children of
\* the node the callback left, in key order; attached says that the node is
\* still reachable from the root, so that update and delete change the tree
Walk(impl, schema, options, st, path, node, attached) ==
  IF st.thrown THEN st
  ELSE IF path = <<>>
    THEN WalkKeys(impl, schema, options, st, path, node, Keys(node), 1, attached)
  ELSE WalkVisit(impl, schema, options, st, path,
                 Callback(impl, schema, options, path, node), attached)

WalkKeys(impl, schema, options, st, path, node, keys, i, attached) ==
  IF i > Len(keys) \/ st.thrown THEN st
  ELSE Once(Walk(impl, schema, options, st, Append(path, keys[i]),
                 Get(node, keys[i]), attached),
            LAMBDA next : WalkKeys(impl, schema, options, next, path, node, keys,
                                   i + 1, attached))

(***************************************************************************)
(* The convert variant: processProperty builds a new value instead of      *)
(* walking the input.  Its state is the reporter's state plus the          *)
(* process-wide pattern cache.                                             *)
(***************************************************************************)
\* the pattern cache of a fresh process: entries is the Map, each entry with
\* the pattern it is stored under, the string it was compiled from and the
\* number of its compilation; requested (the patterns looked up so far) and
\* compiled (the compilations made so far) are history
EmptyCache == [entries |-> {}, requested |-> {}, compiled |-> 0]

\* a lookup that compiles and stores the pattern whether it is cached or not
getRegexRecompiles(cache, pattern) ==
  IF ~RegexCompiles(pattern) THEN [cache EXCEPT !.requested = @ \cup {pattern}]
  ELSE [entries |-> {r \in cache.entries : r.pattern # pattern}
                      \cup {[pattern |-> pattern, source |-> pattern,
                              serial |-> cache.compiled + 1]},
        requested |-> cache.requested \cup {pattern},
        compiled |-> cache.compiled + 1]

\* getRegex: the cache after a lookup of pattern; new RegExp throws on a
\* pattern that does not compile, before regexes.set
getRegex(cache, pattern) ==
  IF \E r \in cache.entries : r.pattern = pattern
    THEN [cache EXCEPT !.requested = @ \cup {pattern}]
  ELSE IF ~RegexCompiles(pattern)
    THEN [cache EXCEPT !.requested = @ \cup {pattern}]
  ELSE [entries |-> cache.entries
                      \cup {[pattern |-> pattern, source |-> pattern,
                              serial |-> cache.compiled + 1]},
        requested |-> cache.requested \cup {pattern},
        compiled |-> cache.compiled + 1]

ProcState(cache) ==
  [collected |-> <<>>, reports |-> <<>>, visited |-> <<>>, thrown |-> FALSE,
   error |-> PlainError("none"), regexes |-> cache]

Ret(st, value) == [st |-> st, value |-> value]

RECURSIVE processProperty(_, _, _, _, _)
RECURSIVE ProcessRecord(_, _, _, _, _, _, _)
RECURSIVE ProcessItems(_, _, _, _, _, _, _)

\* the loop over Object.keys(schema_record) at lines 325-332 and 375-382
ProcessRecord(options, st, schema_record, property_record, path, i, result_record) ==
  IF st.thrown THEN Ret(st, result_record)
  ELSE IF i > Len(schema_record.e) THEN
    Ret(st,
        IF IsTrue(options.strip_unknown) THEN result_record
        ELSE LET extra == SelectSeq(EntriesOf(property_record),
                                    LAMBDA en : ~MapHas(schema_record, en.k))
             IN [result_record EXCEPT !.e = @ \o extra])
  ELSE
    LET key == schema_record.e[i].k
        schema_property == schema_record.e[i].v
        target_schema == IF IsUnion(schema_property)
                         THEN findMatchedSchema(schema_property.alts,
                                                Get(property_record, key))
                         ELSE schema_property
        r == processProperty(options, st, target_schema,
                             Get(property_record, key), Append(path, key))
    IN ProcessRecord(options, r.st, schema_record, property_record, path, i + 1,
                     IF r.value # Undefined THEN Put(result_record, key, r.value)
                     ELSE result_record)

\* the loop over the elements at lines 352-356
ProcessItems(options, st, schema_item, property, path, i, results_array) ==
  IF st.thrown \/ i >= property.len THEN Ret(st, results_array)
  ELSE
    LET element == Get(property, IndexKey(i))
        target_schema == IF IsUnion(schema_item)
                         THEN findMatchedSchema(schema_item.alts, element)
                         ELSE schema_item
        r == processProperty(options, st, target_schema, element,
                             Append(path, IndexKey(i)))
    IN ProcessItems(options, r.st, schema_item, property, path, i + 1,
                    [results_array EXCEPT !.e = Append(@, Entry(IndexKey(i), r.value))])

processProperty(options, st0, equivalent, property, path) ==
  LET fpath == formatPath(path)
      collects == Collects("convert", options)
      st == [st0 EXCEPT !.visited = Append(@, path)]
      Fail(rule, tmpl) ==
        Ret(reportError(st, collects, Violation(rule, tmpl, fpath, <<>>)), property)
  IN IF equivalent.kind # "node" THEN
       \* a mapping taken for a node: none of its keys is an attribute
       IF property = Undefined THEN Ret(st, Undefined)
       ELSE IF property = Null THEN Fail("base.nullable", "base.nullable")
       ELSE Ret(st, property)
     ELSE IF property = Undefined THEN
       IF equivalent.default # Undefined THEN Ret(st, equivalent.default)
       ELSE IF equivalent.required
         THEN Ret(reportError(st, collects,
                              Violation("base.required", "base.required", fpath, <<>>)),
                  Undefined)
       ELSE Ret(st, Undefined)
     ELSE IF property = Null THEN
       IF NullViolates(equivalent)
       THEN Fail("base.nullable", "base.nullable")
       ELSE Ret(st, property)
     ELSE CASE equivalent.type = "string" ->
            IF TypeOf(property) # "string" THEN Fail("string.type", "string.type")
            ELSE
              LET cached == IF equivalent.pattern.has
                            THEN [st EXCEPT !.regexes = getRegex(@, equivalent.pattern.p)]
                            ELSE st
                  found == StringChecks("convert", equivalent, property.s, fpath)
                  \* an enum violation thrown in fail-fast mode comes before
                  \* the pattern lookup
                  enumThrows == ~collects /\ found # <<>>
                                  /\ found[1].rule = "string.enum"
              IN Ret(ReportAll(IF enumThrows THEN st ELSE cached, collects, found),
                     Str(ChainedString(equivalent, property.s)))
       [] equivalent.type = "number" ->
            IF TypeOf(property) # "number" THEN Fail("number.type", "number.type")
            ELSE Ret(ReportAll(st, collects, NumberChecks(equivalent, property, fpath)),
                     property)
       [] equivalent.type = "boolean" ->
            IF TypeOf(property) # "boolean" THEN Fail("boolean.type", "boolean.type")
            ELSE Ret(st, property)
       [] equivalent.type = "date" ->
            IF TypeOf(property) # "string" /\ property.t # "date"
              THEN Fail("date.type", "number.type")
            ELSE IF property.t = "string" /\ ~IsDateString(property.s)
              THEN Fail("date.type", "number.type")
            ELSE
              LET converted == IF property.t = "date" THEN property ELSE date(property)
              IN Ret(ReportAll(st, collects,
                               DateChecks(equivalent, converted, fpath, "date.max")),
                     converted)
       [] equivalent.type = "object" ->
            IF TypeOf(property) # "object" \/ IsArray(property)
              THEN Fail("object.type", "object.type")
            ELSE ProcessRecord(options, st, RecordOf(equivalent.properties),
                               property, path, 1, Obj(<<>>))
       [] equivalent.type = "array" ->
            IF ~IsArray(property) THEN Fail("array.type", "array.type")
            ELSE
              LET st1 == ReportAll(st, collects, ArrayChecks(equivalent, property, fpath))
              IN ProcessItems(options, st1, equivalent.items, property, path, 0,
                              [t |-> "array", e |-> <<>>, len |-> property.len])

(***************************************************************************)
(* JSON.parse(JSON.stringify(v)) and sortkeys(v, {deep: true}).            *)
(***************************************************************************)
BigInt == [t |-> "bigint"]

\* JSON.stringify throws on a BigInt anywhere in the value
RECURSIVE CloneThrows(_)
CloneThrows(v) ==
  IF v.t = "bigint" THEN TRUE
  ELSE IF IsContainer(v) THEN \E i \in 1..Len(v.e) : CloneThrows(v.e[i].v)
  ELSE FALSE

\* toISOString of a date value, then read back as a string
DateToString(d) ==
  <<Digits[(d.n \div 1000) + 1], Digits[((d.n \div 100) % 10) + 1],
    Digits[((d.n \div 10) % 10) + 1], Digits[(d.n % 10) + 1]>>

RECURSIVE JSONClone(_)
JSONClone(v) ==
  CASE v.t = "object" ->
         LET kept == SelectSeq(v.e, LAMBDA en : en.v # Undefined)
         IN Obj([i \in 1..Len(kept) |-> Entry(kept[i].k, JSONClone(kept[i].v))])
    [] v.t = "array" ->
         Arr([i \in 1..v.len |->
                LET element == Get(v, IndexKey(i - 1))
                IN Entry(IndexKey(i - 1),
                         IF element = Undefined THEN Null ELSE JSONClone(element))])
    [] v.t = "date" -> Str(DateToString(v))
    [] v.t = "number" -> IF IsNaN(v) THEN Null ELSE v
    [] OTHER -> v

\* the keys of the model in alphabetical order
KeyOrder ==
  <<"0", "1", "2", "3", "a", "b", "f", "g", "h", "o", "type", "u", "x", "y">>

KeyRank(k) == CHOOSE i \in 1..Len(KeyOrder) : KeyOrder[i] = k

RECURSIVE InsertSorted(_, _)
InsertSorted(sorted, en) ==
  IF sorted = <<>> THEN <<en>>
  ELSE IF KeyRank(en.k) < KeyRank(Head(sorted).k) THEN <<en>> \o sorted
  ELSE <<Head(sorted)>> \o InsertSorted(Tail(sorted), en)

RECURSIVE SortEntries(_)
SortEntries(e) ==
  IF e = <<>> THEN e ELSE InsertSorted(SortEntries(Tail(e)), Head(e))

RECURSIVE sortkeys(_)
sortkeys(v) ==
  IF v.t = "object"
    THEN Obj(SortEntries([i \in 1..Len(v.e) |-> Entry(v.e[i].k, sortkeys(v.e[i].v))]))
  ELSE IF v.t = "array"
    THEN [v EXCEPT !.e = [i \in 1..Len(v.e) |-> Entry(v.e[i].k, sortkeys(v.e[i].v))]]
  ELSE v

(***************************************************************************)
(* validate on a single (non-union) schema, as one synchronous run.  The   *)
(* result tells how the run ends (ok with value, or error), what the       *)
(* object it was handed looks like afterwards (data), the pattern cache,   *)
(* and the visited paths and reported violations of the run.               *)
(***************************************************************************)
Outcome(ok, value, error, data, cache, visited, reports, injected) ==
  [ok |-> ok, value |-> value, error |-> error, data |-> data,
   regexes |-> cache, visited |-> visited, reports |-> reports,
   injected |-> injected]

\* traverse(properties).forEach(...) on the seeded object
Traverse(impl, schema, options, seeded) ==
  Walk(impl, schema, options, WalkState(seeded), <<>>, seeded, TRUE)

\* an ending that overlooks the collected violations
WalkOutcomeIgnoresCollected(impl, options, cache, st) ==
  IF st.thrown
    THEN Outcome(FALSE, Undefined, st.error, st.data, cache, st.visited, st.reports,
                 st.injected)
  ELSE Outcome(TRUE, st.data, PlainError("none"), st.data, cache, st.visited,
               st.reports, st.injected)

\* how a run of a traverse variant ends once the traversal is over
WalkOutcome(impl, options, cache, st) ==
  IF st.thrown
    THEN Outcome(FALSE, Undefined, st.error, st.data, cache, st.visited, st.reports,
                 st.injected)
  ELSE IF Len(st.collected) > 0
    THEN Outcome(FALSE, Undefined, ValidationErrorOf(st.collected), st.data,
                 cache, st.visited, st.reports, st.injected)
  ELSE Outcome(TRUE,
               IF impl = "part001" /\ IsTrue(options.sort_keys)
               THEN sortkeys(st.data) ELSE st.data,
               PlainError("none"), st.data, cache, st.visited, st.reports,
               st.injected)

\* Engine.util.ts lines 116-272
EngineSingle(schema, properties, options, cache) ==
  Once(seedMissingProperties(schema, properties),
       LAMBDA seeded :
         Once(Traverse("engine", schema, options, seeded),
              LAMBDA st : WalkOutcome("engine", options, cache, st)))

\* part_001 lines 140-309
Part001Single(schema, properties, options, cache) ==
  Once(seedMissingProperties(schema, properties),
       LAMBDA seeded :
         Once(Traverse("part001", schema, options, seeded),
              LAMBDA st : WalkOutcome("part001", options, cache, st)))

\* lines 393-402: how the run ends once result is computed; the catch lets
\* a ValidationError through and wraps anything else
ConvertOutcome(options, properties, r) ==
  IF r.st.thrown
    THEN Outcome(FALSE, Undefined,
                 IF IsValidationError(r.st.error) THEN r.st.error
                 ELSE Wrapped(r.st.error),
                 properties, r.st.regexes, r.st.visited, r.st.reports, <<>>)
  ELSE IF Len(r.st.collected) > 0
    THEN Outcome(FALSE, Undefined, ValidationErrorOf(r.st.collected), properties,
                 r.st.regexes, r.st.visited, r.st.reports, <<>>)
  ELSE Outcome(TRUE,
               IF IsTrue(options.sort_keys) THEN sortkeys(r.value) ELSE r.value,
               PlainError("none"), properties, r.st.regexes, r.st.visited,
               r.st.reports, <<>>)

\* ConvertToJSONSchema.util.ts lines 186-402
ConvertSingle(schema, properties, options, cache) ==
  IF ~HasTypeKey(schema) /\ (TypeOf(properties) # "object" \/ IsArray(properties))
    THEN Outcome(FALSE, Undefined,
                 ValidationErrorOf(
                   <<Violation("object.type", "object.type", <<"root">>, <<>>)>>),
                 properties, cache, <<>>, <<>>, <<>>)
  ELSE ConvertOutcome(options, properties,
         IF ~HasTypeKey(schema)
         THEN ProcessRecord(options, ProcState(cache), schema, properties,
                            <<>>, 1, Obj(<<>>))
         ELSE processProperty(options, ProcState(cache), schema, properties, <<>>))

ValidateSingle(impl, schema, properties, options, cache) ==
  CASE impl = "engine" -> EngineSingle(schema, properties, options, cache)
    [] impl = "part001" -> Part001Single(schema, properties, options, cache)
    [] impl = "convert" -> ConvertSingle(schema, properties, options, cache)

(***************************************************************************)
(* Calls.  A call is one invocation of validate(schema, properties,        *)
(* options).  input is the caller's object as it is now, original as it    *)
(* was handed in; promise is what the caller holds; attempts records each  *)
(* single-schema run the call has made (member 0: the schema itself).      *)
(***************************************************************************)
Impls == {"engine", "part001", "convert"}

\* the engine variant wraps its body in setTimeout(..., 0)
UsesTimer(impl) == impl = "engine"

Pending == [state |-> "pending", value |-> Undefined, error |-> PlainError("none")]

\* a call of validate before its first step; given and original keep the
\* schema and the input as they were when the call was made
NewCall(impl, schema, properties, options) ==
  [impl |-> impl, options |-> options, input |-> properties,
   given |-> schema, original |-> properties, pc |-> "idle", i |-> 0, clone |-> Undefined,
   passed |-> FALSE, last_error |-> PlainError("new"),
   member |-> [ok |-> FALSE, value |-> Undefined, error |-> PlainError("none")],
   promise |-> Pending, attempts |-> <<>>]

\* a settlement that a later resolve overwrites
resolveLastWins(promise, value) ==
  [state |-> "fulfilled", value |-> value, error |-> PlainError("none")]

\* resolve(value): only the first settlement of a promise counts
resolve(promise, value) ==
  IF promise.state = "pending"
  THEN [state |-> "fulfilled", value |-> value, error |-> PlainError("none")]
  ELSE promise

\* a reject that leaves the promise as it is
rejectDropped(promise, error) == promise

\* reject(error)
reject(promise, error) ==
  IF promise.state = "pending"
  THEN [state |-> "rejected", value |-> Undefined, error |-> error]
  ELSE promise

\* the schema once the default of the node that getSchema finds for path
\* (with no value) holds value
RECURSIVE SetDefaultAt(_, _, _)
SetDefaultAt(schema, path, value) ==
  IF path = <<>> THEN
    IF IsUnion(schema) THEN [schema EXCEPT !.alts[1].default = value]
    ELSE IF schema.kind = "node" THEN [schema EXCEPT !.default = value]
    ELSE schema
  ELSE IF IsUnion(schema) THEN
    LET hits == {i \in 1..Len(schema.alts) :
                   getSchema(schema.alts[i], path, Undefined) # NoThing}
    IN IF hits = {} THEN schema
       ELSE [schema EXCEPT !.alts[CHOOSE i \in hits : \A j \in hits : i <= j] =
                              SetDefaultAt(@, path, value)]
  ELSE IF schema.kind = "node" THEN
    IF TypeIs(schema, "object") /\ "properties" \in DOMAIN schema
      THEN [schema EXCEPT !.properties = SetDefaultAt(@, path, value)]
    ELSE IF TypeIs(schema, "array") /\ "items" \in DOMAIN schema
            /\ IsIndexKey(Head(path))
      THEN [schema EXCEPT !.items = SetDefaultAt(@, Tail(path), value)]
    ELSE schema
  ELSE IF schema.kind = "map" /\ ~MapHas(schema, "type") THEN
    [schema EXCEPT !.e = [i \in 1..Len(schema.e) |->
                            IF schema.e[i].k = Head(path)
                            THEN Entry(schema.e[i].k,
                                       SetDefaultAt(schema.e[i].v, Tail(path), value))
                            ELSE schema.e[i]]]
  ELSE schema

\* a default object or array injected by reference is the schema's own
\* object: what the run left in the tree at its path is what the schema
\* holds as default afterwards
RECURSIVE AliasDefaults(_, _, _)
AliasDefaults(schema, data, paths) ==
  IF paths = <<>> THEN schema
  ELSE AliasDefaults(SetDefaultAt(schema, Head(paths), GetAt(data, Head(paths))),
                     data, Tail(paths))

\* the schema a run was given, as the run leaves it
SchemaAfter(schema, out) == AliasDefaults(schema, out.data, out.injected)

Attempt(i, before, out) ==
  [i |-> i, before |-> before, ok |-> out.ok, value |-> out.value,
   error |-> out.error, visited |-> out.visited, reports |-> out.reports]

\* a catch that keeps the error of the first failed member
catchErrorKeepsFirst(call, error) ==
  IF call.last_error = PlainError("new")
  THEN [call EXCEPT !.last_error = error] ELSE call

\* catch (error) { last_error = error ... } around a member attempt
catchError(call, error) == [call EXCEPT !.last_error = error]

\* the object a member attempt works on: a JSON copy in the engine variant,
\* the caller's object itself in the other two
MemberInput(impl, properties) ==
  IF impl = "engine" THEN JSONClone(properties) ELSE properties

\* await validate(schema_single, ...) in the async variants: the member
\* call has run on the caller's object (before) and the loop awaits it
AwaitMember(call, i, before, out) ==
  [call |-> [call EXCEPT !.pc = "member_await", !.i = i,
                         !.input = out.data,
                         !.member = [ok |-> out.ok, value |-> out.value,
                                     error |-> out.error],
                         !.attempts = Append(@, Attempt(i, before, out))],
   regexes |-> out.regexes,
   schema |-> [shared_schema EXCEPT !.alts[i] = SchemaAfter(@, out)]]

\* JSON.stringify threw inside the try of member i: the attempt on the
\* member ends there, before any validation
CloneFailed(call, i, cache) ==
  [call EXCEPT !.attempts =
     Append(@, Attempt(i, call.input,
                       Outcome(FALSE, Undefined, PlainError("clone"), call.input,
                               cache, <<>>, <<>>, <<>>)))]

\* the for loop over the union members from member i on, up to the next
\* await or to the end of the loop
RECURSIVE UnionLoop(_, _, _)
UnionLoop(call, i, cache) ==
  IF i > Len(shared_schema.alts) THEN
    [call |-> [call EXCEPT !.pc = "done",
                           !.promise = IF call.impl = "engine" /\ call.passed THEN @
                                       ELSE reject(@, call.last_error)],
     regexes |-> cache, schema |-> shared_schema]
  ELSE IF call.impl = "engine" THEN
    IF CloneThrows(call.input)
    THEN UnionLoop(catchError(CloneFailed(call, i, cache), PlainError("clone")),
                   i + 1, cache)
    ELSE [call |-> [call EXCEPT !.pc = "member_timer", !.i = i,
                                !.clone = MemberInput(call.impl, call.input)],
          regexes |-> cache, schema |-> shared_schema]
  ELSE Once(ValidateSingle(call.impl, shared_schema.alts[i], call.input,
                           call.options, cache),
            LAMBDA out : AwaitMember(call, i, call.input, out))

\* a single-schema call ends with the outcome of its run
Settle(call, out) ==
  [call |-> [call EXCEPT !.pc = "done", !.input = out.data,
                         !.promise = IF out.ok THEN resolve(@, out.value)
                                     ELSE reject(@, out.error),
                         !.attempts = Append(@, Attempt(0, call.input, out))],
   regexes |-> out.regexes, schema |-> SchemaAfter(shared_schema, out)]

\* the call, the pattern cache and the schema after a step of call c
Commit(c, r) ==
  /\ calls' = [calls EXCEPT ![c] = r.call]
  /\ regexes' = r.regexes
  /\ shared_schema' = r.schema

\* the body of validate up to its first await or to its end
Body(call, cache) ==
  IF IsUnion(shared_schema) THEN UnionLoop(call, 1, cache)
  ELSE Once(ValidateSingle(call.impl, shared_schema, call.input, call.options,
                           cache),
            LAMBDA out : Settle(call, out))

\* the caller calls validate: the engine variant only sets its timer, the
\* async variants run their body
Invoke(c) ==
  /\ calls[c].pc = "idle"
  /\ IF UsesTimer(calls[c].impl)
     THEN /\ calls' = [calls EXCEPT ![c].pc = "timer"]
          /\ UNCHANGED <<regexes, shared_schema>>
     ELSE \E r \in {Body(calls[c], regexes)} : Commit(c, r)

\* the timer of the call fires
TimerFire(c) ==
  /\ calls[c].pc = "timer"
  /\ \E r \in {Body(calls[c], regexes)} : Commit(c, r)

\* the nested validate of the engine variant has run on the copy
MemberSettled(call, out) ==
  [call |-> [call EXCEPT !.pc = "member_await", !.clone = out.data,
                         !.member = [ok |-> out.ok, value |-> out.value,
                                     error |-> out.error],
                         !.attempts = Append(@, Attempt(call.i, call.clone, out))],
   regexes |-> out.regexes,
   schema |-> [shared_schema EXCEPT !.alts[call.i] = SchemaAfter(@, out)]]

\* the timer of the nested validate on the current member fires: the member
\* is validated on the copy and the nested promise settles
MemberTimerFire(c) ==
  /\ calls[c].pc = "member_timer"
  /\ \E out \in {ValidateSingle(calls[c].impl, shared_schema.alts[calls[c].i],
                                 calls[c].clone, calls[c].options, regexes)} :
       \E r \in {MemberSettled(calls[c], out)} : Commit(c, r)

\* after the await: resolve (and, in the async variants, return) or catch,
\* then the rest of the loop
Resume(call, cache) ==
  IF call.member.ok /\ call.impl # "engine"
  THEN [call |-> [call EXCEPT !.pc = "done",
                              !.promise = resolve(@, call.member.value)],
        regexes |-> cache, schema |-> shared_schema]
  ELSE UnionLoop(IF call.member.ok
                 THEN [call EXCEPT !.passed = TRUE,
                                   !.promise = resolve(@, call.member.value)]
                 ELSE catchError(call, call.member.error),
                 call.i + 1, cache)

\* the await on the member's promise resumes
MemberResume(c) ==
  /\ calls[c].pc = "member_await"
  /\ \E r \in {Resume(calls[c], regexes)} : Commit(c, r)

Next ==
  \E c \in DOMAIN calls :
    \/ Invoke(c)
    \/ TimerFire(c)
    \/ MemberTimerFire(c)
    \/ MemberResume(c)

(***************************************************************************)
(* The schemas, inputs and options the calls are made with.                *)
(***************************************************************************)
Strings == UNION {[1..k -> Chars] : k \in 0..MaxStrLen}

Types == {"string", "number", "boolean", "date", "object", "array"}

Year2024 == <<"2", "0", "2", "4">>

NodeOfType(type) ==
  CASE type = "string" -> StringNode
    [] type = "number" -> NumberNode
    [] type = "boolean" -> BooleanNode
    [] type = "date" -> DateNode
    [] type = "object" -> ObjectNode(Map(<<Entry("h", NumberNode)>>))
    [] type = "array" -> ArrayNode(NumberNode)

\* a value that satisfies NodeOfType(type)
ValidValue(type) ==
  CASE type = "string" -> Str(<<"t">>)
    [] type = "number" -> Num(1)
    [] type = "boolean" -> Bool(TRUE)
    [] type = "date" -> Str(Year2024)
    [] type = "object" -> Obj(<<Entry("h", Num(1))>>)
    [] type = "array" -> Arr(<<Entry("0", Num(1))>>)

\* a value of another kind than the node's
WrongValue(type) == IF type = "string" THEN Num(1) ELSE Str(<<" ", "T">>)

\* a default that the node's own rules would change or reject
RawDefault(type) ==
  CASE type = "string" -> Str(<<" ", "T", " ">>)
    [] type = "date" -> Str(Year2024)
    [] OTHER -> ValidValue(type)

FieldNodes ==
  {[NodeOfType(type) EXCEPT !.nullable = nullable, !.required = required,
                            !.default = default] :
     type \in Types, nullable \in BOOLEAN, required \in BOOLEAN,
     default \in {Undefined, Null}}
  \cup
  {[NodeOfType(type) EXCEPT !.nullable = nullable, !.required = required,
                            !.default = RawDefault(type)] :
     type \in Types, nullable \in BOOLEAN, required \in BOOLEAN}

Absent == [present |-> FALSE, v |-> Undefined]

Present(v) == [present |-> TRUE, v |-> v]

FieldEntry(key, fv) == IF fv.present THEN <<Entry(key, fv.v)>> ELSE <<>>

FieldValues(node) ==
  {Absent, Present(Null), Present(ValidValue(node.type)),
   Present(WrongValue(node.type))}

Positions == {"top", "nested", "element", "elementField"}

\* the two top-level fields in the order the scenario asks for
Ordered(order, gEntry, otherEntry) ==
  IF order = "gf" THEN gEntry \o otherEntry ELSE otherEntry \o gEntry

\* field f declared with node at one of four depths, beside a number field g
PositionedSchema(position, node, order) ==
  Map(Ordered(order, <<Entry("g", NumberNode)>>,
        CASE position = "top" -> <<Entry("f", node)>>
          [] position = "nested" ->
               <<Entry("o", ObjectNode(Map(<<Entry("f", node)>>)))>>
          [] position = "element" -> <<Entry("a", ArrayNode(node))>>
          [] position = "elementField" ->
               <<Entry("a", ArrayNode(ObjectNode(Map(<<Entry("f", node)>>))))>>))

PositionedInput(position, gv, fv, order) ==
  Obj(Ordered(order, FieldEntry("g", gv),
        CASE position = "top" -> FieldEntry("f", fv)
          [] position = "nested" -> <<Entry("o", Obj(FieldEntry("f", fv)))>>
          [] position = "element" -> <<Entry("a", Arr(FieldEntry("0", fv)))>>
          [] position = "elementField" ->
               <<Entry("a", Arr(<<Entry("0", Obj(FieldEntry("f", fv)))>>))>>))

NormNodes ==
  {[StringNode EXCEPT !.trim = trim, !.lowercase = lowercase,
                      !.uppercase = uppercase] :
     trim \in {Unset, SomeBool(TRUE), SomeBool(FALSE)},
     lowercase \in {Unset, SomeBool(TRUE)},
     uppercase \in {Unset, SomeBool(TRUE)}}

StringChecked(node) ==
  {node,
   [node EXCEPT !.enum = SomeEnum(<<<<"t">>>>)],
   [node EXCEPT !.enum = SomeEnum(<<<<" ", "T">>, <<"t", "t">>>>)],
   [node EXCEPT !.pattern = SomePattern(LowerOnly)],
   [node EXCEPT !.min = SomeNum(2)],
   [node EXCEPT !.max = SomeNum(1)]}

\* the member schemas the unions are built from
MemberPool ==
  {Map(<<Entry("x", [StringNode EXCEPT !.lowercase = SomeBool(TRUE)])>>),
   Map(<<Entry("x", [StringNode EXCEPT !.uppercase = SomeBool(TRUE)]),
         Entry("y", NumberNode)>>),
   Map(<<Entry("x", [StringNode EXCEPT !.trim = SomeBool(FALSE)]),
         Entry("y", [NumberNode EXCEPT !.required = FALSE, !.default = Num(1)])>>),
   Map(<<Entry("x", NumberNode)>>)}

UnionInputs ==
  {Obj(<<Entry("x", xv)>> \o FieldEntry("y", yv)) :
     xv \in {Str(<<" ", "T", " ">>), Str(<<"t">>), Str(<<" ", "t">>), Num(1), BigInt},
     yv \in {Absent, Present(Num(1)), Present(Str(<<"t">>))}}

\* one call on a scenario
Start(impl, sch, properties, options) ==
  /\ calls = [c \in {1} |-> NewCall(impl, sch, properties, options)]
  /\ shared_schema = sch
  /\ regexes = EmptyCache

AbortChoices == {Unset, SomeBool(TRUE), SomeBool(FALSE)}

\* the sibling g (valid, of the wrong type, or missing) and the key order
Siblings ==
  {<<Present(Num(1)), "gf">>, <<Present(Str(<<"t">>)), "gf">>,
   <<Present(Str(<<"t">>)), "fg">>, <<Absent, "fg">>}

\* a field at some depth, holding each kind of value or missing
InitField ==
  \E impl \in Impls, position \in Positions, node \in FieldNodes,
     sibling \in Siblings,
     abort \in AbortChoices :
    \E fv \in FieldValues(node) :
      Start(impl, PositionedSchema(position, node, sibling[2]),
            PositionedInput(position, sibling[1], fv, sibling[2]),
            Options(abort, Unset, Unset))

\* one string field with normalization flags and one check
InitString ==
  \E impl \in Impls, base \in NormNodes, str \in Strings :
    \E node \in StringChecked(base) :
      Start(impl, Map(<<Entry("f", node)>>), Obj(<<Entry("f", Str(str))>>),
            DefaultOptions)

\* a schema union
InitUnion ==
  \E impl \in Impls, k \in 2..MaxMembers, properties \in UnionInputs,
     abort \in AbortChoices :
    \E members \in [1..k -> MemberPool] :
      Start(impl, Union(members), properties, Options(abort, Unset, Unset))

\* a field declared after an object whose only field is optional, has no
\* default and is missing from the input
InitAfterOptional ==
  \E impl \in Impls, node \in FieldNodes, abort \in AbortChoices :
    \E fv \in FieldValues(node) :
      Start(impl,
            Map(<<Entry("o", ObjectNode(Map(<<Entry("h",
                                   [BooleanNode EXCEPT !.required = FALSE])>>))),
                  Entry("f", node)>>),
            Obj(<<Entry("o", Obj(<<>>))>> \o FieldEntry("f", fv)),
            Options(abort, Unset, Unset))

Star == <<"*">>

\* the candidates the field unions are built from
UnionCandidates ==
  {[StringNode EXCEPT !.enum = SomeEnum(<<Star>>)],
   ArrayNode(StringNode),
   NumberNode,
   [BooleanNode EXCEPT !.nullable = TRUE],
   DateNode,
   ObjectNode(Map(<<Entry("h", NumberNode)>>))}

UnionValues ==
  {Absent, Present(Null), Present(Str(Star)), Present(Str(<<"t">>)),
   Present(Str(Year2024)), Present(DateV(2024)), Present(Num(1)),
   Present(Bool(TRUE)),
   Present(Arr(<<Entry("0", Str(<<" ", "t">>))>>)),
   Present(Arr(<<Entry("0", Num(1))>>)),
   Present(Obj(<<Entry("h", Num(1))>>))}

\* a field u whose Type is a union of two candidates
InitFieldUnion ==
  \E impl \in Impls, a \in UnionCandidates, fv \in UnionValues :
    \E b \in UnionCandidates \ {a} :
      Start(impl, Map(<<Entry("u", Union(<<a, b>>))>>), Obj(FieldEntry("u", fv)),
            DefaultOptions)

ItemCandidates == {StringNode, NumberNode, [BooleanNode EXCEPT !.nullable = TRUE]}

ItemValues == {Num(1), Num(2), Str(<<"t">>), Str(<<" ", "t">>), Null, Bool(TRUE)}

\* the array holding the given elements
ArrayOf(elements) ==
  Arr([i \in 1..Len(elements) |-> Entry(IndexKey(i - 1), elements[i])])

\* an array field u whose items is a union of two candidates
InitItemsUnion ==
  \E impl \in Impls, a \in ItemCandidates, n \in 0..MaxItems :
    \E b \in ItemCandidates \ {a}, elements \in [1..n -> ItemValues] :
      Start(impl, Map(<<Entry("u", ArrayNode(Union(<<a, b>>)))>>),
            Obj(<<Entry("u", ArrayOf(elements))>>), DefaultOptions)

StripChoices == {Unset, SomeBool(FALSE), SomeBool(TRUE)}

UnknownValues ==
  {Num(1), Str(<<" ", "T">>), Null, Obj(<<Entry("h", Str(<<" ", "t">>))>>),
   Arr(<<Entry("0", Str(<<" ", "t">>))>>)}

\* the declared field f and the undeclared key x side by side, in either order
WithUnknown(fv, xv, order) ==
  Obj(IF order = "fx" THEN <<Entry("f", fv), Entry("x", xv)>>
      ELSE <<Entry("x", xv), Entry("f", fv)>>)

\* the input of PositionedSchema with the key x added at the level of f
UnknownInput(position, fv, xv, order) ==
  CASE position = "top" ->
         [WithUnknown(fv, xv, order) EXCEPT !.e = <<Entry("g", Num(1))>> \o @]
    [] position = "nested" ->
         Obj(<<Entry("g", Num(1)), Entry("o", WithUnknown(fv, xv, order))>>)
    [] position = "elementField" ->
         Obj(<<Entry("g", Num(1)),
               Entry("a", Arr(<<Entry("0", WithUnknown(fv, xv, order))>>))>>)

\* an input with a key the schema does not declare, under each
\* strip_unknown setting
InitUnknown ==
  \E impl \in Impls, position \in Positions \ {"element"}, xv \in UnknownValues,
     fv \in {Str(<<" ", "t">>), Num(1)}, order \in {"fx", "xf"},
     strip \in StripChoices :
    Start(impl, PositionedSchema(position, StringNode, "gf"),
          UnknownInput(position, fv, xv, order), Options(Unset, strip, Unset))

\* the number nodes with each combination of integer, positive and negative
NumberNodes ==
  {[NumberNode EXCEPT !.integer = integer, !.positive = positive,
                      !.negative = negative] :
     integer \in {Unset, SomeBool(TRUE)},
     positive \in {Unset, SomeBool(TRUE), SomeBool(FALSE)},
     negative \in {Unset, SomeBool(TRUE), SomeBool(FALSE)}}

\* -1, -0.5, 0, 0.5, 1 and NaN
NumberValues == {Num(-1), NumHalf(-1), Num(0), NumHalf(0), Num(1), NaN}

\* one number field
InitNumber ==
  \E impl \in Impls, node \in NumberNodes, v \in NumberValues, abort \in AbortChoices :
    Start(impl, Map(<<Entry("f", node)>>), Obj(<<Entry("f", v)>>),
          Options(abort, Unset, Unset))

\* object and array nodes whose default is an object or an array: one that
\* the node's rules leave as it is, one that they trim, one with a key the
\* node does not declare
ContainerDefaults ==
  {[ObjectNode(Map(<<Entry("s", StringNode)>>)) EXCEPT !.default = default] :
     default \in {Obj(<<Entry("s", Str(<<"t">>))>>),
                  Obj(<<Entry("s", Str(<<" ", "t">>))>>),
                  Obj(<<Entry("s", Str(<<"t">>)), Entry("x", Num(1))>>)}}
  \cup
  {[ArrayNode(StringNode) EXCEPT !.default = default] :
     default \in {Arr(<<Entry("0", Str(<<"t">>))>>),
                  Arr(<<Entry("0", Str(<<" ", "t">>))>>)}}

\* a field d with an object or array default, missing from the input or
\* present in it
InitDefault ==
  \E impl \in Impls, node \in ContainerDefaults, strip \in StripChoices,
     position \in {"top", "nested"} :
    \E dv \in {Absent, Present(node.default)} :
      Start(impl,
            IF position = "top" THEN Map(<<Entry("d", node)>>)
            ELSE Map(<<Entry("o", ObjectNode(Map(<<Entry("d", node)>>)))>>),
            IF position = "top" THEN Obj(FieldEntry("d", dv))
            ELSE Obj(<<Entry("o", Obj(FieldEntry("d", dv)))>>),
            Options(Unset, strip, Unset))

Init ==
  \/ InitField
  \/ InitAfterOptional
  \/ InitString
  \/ InitUnion
  \/ InitFieldUnion
  \/ InitItemsUnion
  \/ InitUnknown
  \/ InitNumber
  \/ InitDefault

Spec == Init /\ [][Next]_vars

\* the inputs of the unions whose settling is followed to the end: a string,
\* a number, and a value that cannot be copied
SettlingInputs ==
  {Obj(<<Entry("x", xv)>>) : xv \in {Str(<<" ", "T", " ">>), Num(1), BigInt}}

\* the calls whose settling is followed to the end: every schema union on
\* each of these inputs, and one string field
InitSettling ==
  \/ \E impl \in Impls, k \in 2..MaxMembers, properties \in SettlingInputs :
       \E members \in [1..k -> MemberPool] :
         Start(impl, Union(members), properties, DefaultOptions)
  \/ \E impl \in Impls, str \in Strings :
       Start(impl, Map(<<Entry("f", [StringNode EXCEPT !.min = SomeNum(2)])>>),
             Obj(<<Entry("f", Str(str))>>), DefaultOptions)

\* the event loop runs every timer that was set and every continuation of
\* a settled promise
FairSpec == InitSettling /\ [][Next]_vars /\ WF_vars(Next)

\* two calls on one schema and one pattern cache, each on its own input
\* and with its own options
StartTwo(impl, sch, first, second) ==
  /\ calls = [c \in {1, 2} |->
               IF c = 1 THEN NewCall(impl, sch, first[1], first[2])
               ELSE NewCall(impl, sch, second[1], second[2])]
  /\ shared_schema = sch
  /\ regexes = EmptyCache

\* the container defaults of the concurrent calls: those above, and an
\* object default whose string has a minimal length
ConcurrentDefaults ==
  ContainerDefaults \cup
  {[ObjectNode(Map(<<Entry("s", [StringNode EXCEPT !.min = SomeNum(2)])>>))
      EXCEPT !.default = Obj(<<Entry("s", Str(<<" ", "t">>))>>)]}

\* two calls that share a schema union, a schema with a container default,
\* or a schema with a pattern
InitConcurrent ==
  \/ \E impl \in Impls, first \in SettlingInputs, second \in SettlingInputs :
       \E members \in [1..2 -> MemberPool] :
         StartTwo(impl, Union(members), <<first, DefaultOptions>>,
                  <<second, DefaultOptions>>)
  \/ \E impl \in Impls, node \in ConcurrentDefaults,
        strip1 \in {Unset, SomeBool(TRUE)}, strip2 \in {Unset, SomeBool(TRUE)} :
       \E dv1 \in {Absent, Present(node.default)},
          dv2 \in {Absent, Present(node.default)} :
         StartTwo(impl, Map(<<Entry("d", node)>>),
                  <<Obj(FieldEntry("d", dv1)), Options(Unset, strip1, Unset)>>,
                  <<Obj(FieldEntry("d", dv2)), Options(Unset, strip2, Unset)>>)
  \/ \E impl \in Impls, s1 \in {<<"t">>, <<"T">>}, s2 \in {<<"t">>, <<"T">>} :
       StartTwo(impl,
                Map(<<Entry("f", [StringNode EXCEPT !.pattern = SomePattern(LowerOnly)])>>),
                <<Obj(<<Entry("f", Str(s1))>>), DefaultOptions>>,
                <<Obj(<<Entry("f", Str(s2))>>), DefaultOptions>>)

\* the deferred steps of the two calls in every order
ConcurrentSpec == InitConcurrent /\ [][Next]_vars

\* the patterns of the pattern scenarios: two that compile and the one of
\* a malformed schema
Patterns == {LowerOnly, NoSpace, BadPattern}

PatternNode(p) == [StringNode EXCEPT !.pattern = SomePattern(p)]

\* the inputs of the pattern scenarios, each with its abort_early setting
PatternInputs ==
  {<<Obj(<<Entry("f", Str(fv)), Entry("g", Str(gv))>>), Options(abort, Unset, Unset)>> :
     fv \in {<<"t">>, <<"T">>}, gv \in {<<"t">>, <<" ">>},
     abort \in {Unset, SomeBool(FALSE)}}

\* two calls on a schema whose string fields have patterns, or on a union
\* of two such schemas
InitPattern ==
  \E impl \in Impls, p1 \in Patterns, p2 \in Patterns,
     first \in PatternInputs, second \in PatternInputs :
    \/ StartTwo(impl,
                Map(<<Entry("f", PatternNode(p1)), Entry("g", PatternNode(p2))>>),
                first, second)
    \/ /\ first[2] = DefaultOptions /\ second[2] = DefaultOptions
       /\ StartTwo(impl,
                   Union(<<Map(<<Entry("f", PatternNode(p1))>>),
                           Map(<<Entry("g", PatternNode(p2))>>)>>),
                   first, second)

\* the calls that look patterns up, their deferred steps in every order
PatternSpec == InitPattern /\ [][Next]_vars

\* date nodes without and with a min and a max of the year 2000
DateNodes ==
  {[DateNode EXCEPT !.min = mn, !.max = mx] :
     mn \in {Unset, SomeDate(<<"2", "0", "0", "0">>)},
     mx \in {Unset, SomeDate(<<"2", "0", "0", "0">>)}}

\* dates before, at and after the year 2000, and values that are no dates
DateValues ==
  {Str(<<"1", "0", "0", "0">>), Str(<<"2", "0", "0", "0">>),
   Str(<<"3", "0", "0", "0">>), Str(<<"t">>), Num(1)}

\* a call on a date field, the date node alone or as the second member of a
\* union after a number node
InitDate ==
  \E impl \in Impls, node \in DateNodes, v \in DateValues, abort \in AbortChoices :
    \/ Start(impl, Map(<<Entry("f", node)>>), Obj(<<Entry("f", v)>>),
             Options(abort, Unset, Unset))
    \/ Start(impl,
             Union(<<Map(<<Entry("f", NumberNode)>>), Map(<<Entry("f", node)>>)>>),
             Obj(<<Entry("f", v)>>), Options(abort, Unset, Unset))

\* the calls that check dates
DateSpec == InitDate /\ [][Next]_vars

\* the keys of the path scenarios: a name, an all-digit key and the empty
\* string
PathKeys == {"a", "0", ""}

\* a number declared under key k2 of the object or of the array elements
\* under key k1
PathSchema(k1, k2, inArray) ==
  IF inArray THEN Map(<<Entry(k1, ArrayNode(NumberNode))>>)
  ELSE Map(<<Entry(k1, ObjectNode(Map(<<Entry(k2, NumberNode)>>)))>>)

PathInput(k1, k2, inArray, v) ==
  IF inArray THEN Obj(<<Entry(k1, ArrayOf(<<Num(1), v>>))>>)
  ELSE Obj(<<Entry(k1, Obj(<<Entry(k2, v)>>))>>)

\* a call whose input holds a number, a string or null where the schema
\* declares a number two keys deep, on a single schema or on a union of two
InitPath ==
  \E impl \in Impls, k1 \in PathKeys, k2 \in PathKeys, inArray \in BOOLEAN,
     v \in {Num(1), Str(<<"t">>), Null}, abort \in AbortChoices :
    \/ Start(impl, PathSchema(k1, k2, inArray), PathInput(k1, k2, inArray, v),
             Options(abort, Unset, Unset))
    \/ \E j1 \in PathKeys :
         Start(impl,
               Union(<<PathSchema(j1, k2, inArray), PathSchema(k1, k2, inArray)>>),
               PathInput(k1, k2, inArray, v), Options(abort, Unset, Unset))

\* the calls whose violations lie under names, indexes and empty keys
PathSpec == InitPath /\ [][Next]_vars

\* the nodes of the property p of an array's elements: required without a
\* default, and with the default 2
ElementNodes == {NumberNode, [NumberNode EXCEPT !.default = Num(2)]}

\* elements that lack p, hold a number under p, hold a string under p
ElementValues ==
  {Obj(<<>>), Obj(<<Entry("p", Num(1))>>), Obj(<<Entry("p", Str(<<"t">>))>>)}

\* the schema of an array field arr whose items is an object node declaring p
ElementSchema(node) ==
  Map(<<Entry("arr", ArrayNode(ObjectNode(Map(<<Entry("p", node)>>))))>>)

\* a call on an array of one to MaxItems objects, the schema alone or as the
\* second member of a union after a schema that declares arr a number
InitElement ==
  \E impl \in Impls, node \in ElementNodes, n \in 1..MaxItems,
     abort \in AbortChoices :
    \E elements \in [1..n -> ElementValues] :
      \/ Start(impl, ElementSchema(node),
               Obj(<<Entry("arr", ArrayOf(elements))>>),
               Options(abort, Unset, Unset))
      \/ Start(impl,
               Union(<<Map(<<Entry("arr", NumberNode)>>), ElementSchema(node)>>),
               Obj(<<Entry("arr", ArrayOf(elements))>>),
               Options(abort, Unset, Unset))

\* the calls that validate the objects of an array
ElementSpec == InitElement /\ [][Next]_vars

\* string nodes with any of an enum, a pattern, a min of 3 and a max of 1
OrderStringNodes ==
  {[StringNode EXCEPT !.enum = en, !.pattern = pa, !.min = mn, !.max = mx] :
     en \in {Unset, SomeEnum(<<<<"a">>>>)}, pa \in {Unset, SomePattern(LowerOnly)},
     mn \in {Unset, SomeNum(3)}, mx \in {Unset, SomeNum(1)}}

\* number nodes with any of an enum, a min of 2 and a max of 1, and with
\* integer, positive or negative set
OrderNumberNodes ==
  {[NumberNode EXCEPT !.enum = en, !.min = mn, !.max = mx, !.integer = ig,
                      !.positive = sg[1], !.negative = sg[2]] :
     en \in {Unset, SomeEnum(<<Num(2)>>)}, mn \in {Unset, SomeNum(2)},
     mx \in {Unset, SomeNum(1)}, ig \in {Unset, SomeBool(TRUE)},
     sg \in {<<Unset, Unset>>, <<SomeBool(TRUE), Unset>>, <<Unset, SomeBool(TRUE)>>}}

\* array nodes with any of a min of 3 and a max of 1
OrderArrayNodes ==
  {[ArrayNode(NumberNode) EXCEPT !.min = mn, !.max = mx] :
     mn \in {Unset, SomeNum(3)}, mx \in {Unset, SomeNum(1)}}

\* a node and a value that fails every check the node has but the first
\* (and, of positive and negative, one), or the first
OrderCases ==
  (OrderStringNodes \X {Str(<<"T", "T">>), Num(1)})
    \cup (OrderNumberNodes \X {NumHalf(1), NumHalf(-1), Str(<<"t">>)})
    \cup (OrderArrayNodes \X {ArrayOf(<<Num(1), Num(1)>>), Num(1)})

\* a call on one field, the node alone or, in fail-fast mode, as the second
\* member of a union after a boolean node
InitOrder ==
  \E impl \in Impls, case \in OrderCases, abort \in AbortChoices :
    \/ Start(impl, Map(<<Entry("f", case[1])>>), Obj(<<Entry("f", case[2])>>),
             Options(abort, Unset, Unset))
    \/ /\ abort = Unset
       /\ Start(impl,
                Union(<<Map(<<Entry("f", BooleanNode)>>),
                        Map(<<Entry("f", case[1])>>)>>),
                Obj(<<Entry("f", case[2])>>), Options(abort, Unset, Unset))

\* the calls on values that fail several checks of their node
OrderSpec == InitOrder /\ [][Next]_vars

\* the names of the first field of the locator scenarios
FieldNames == {"f", "type"}

\* a mapping that declares a string under name, an object node, a field
\* that is a union of a string and a number, a field that is a union of two
\* object nodes, and an array of numbers
LocatorSchema(name) ==
  Map(<<Entry(name, StringNode),
        Entry("g", ObjectNode(Map(<<Entry("a", NumberNode)>>))),
        Entry("u", Union(<<StringNode, NumberNode>>)),
        Entry("m", Union(<<ObjectNode(Map(<<Entry("a", NumberNode)>>)),
                           ObjectNode(Map(<<Entry("b", StringNode)>>))>>)),
        Entry("arr", ArrayNode(NumberNode))>>)

LocatorInput(name, v, w, x, y) ==
  Obj(<<Entry(name, v), Entry("g", Obj(<<Entry("a", w)>>)), Entry("u", x),
        Entry("m", Obj(<<Entry("b", Str(<<"t">>))>>)),
        Entry("arr", ArrayOf(<<y>>))>>)

\* a call on a value for every declared field, each a number or a string,
\* the schema alone or as the second member of a union
InitLocator ==
  \E impl \in Impls, name \in FieldNames, abort \in AbortChoices :
    \E v \in {Num(1), Str(<<"t">>)}, w \in {Num(1), Str(<<"t">>)},
       x \in {Num(1), Str(<<"t">>)}, y \in {Num(1), Str(<<"t">>)} :
      \/ Start(impl, LocatorSchema(name), LocatorInput(name, v, w, x, y),
               Options(abort, Unset, Unset))
      \/ Start(impl,
               Union(<<Map(<<Entry(name, NumberNode)>>), LocatorSchema(name)>>),
               LocatorInput(name, v, w, x, y), Options(abort, Unset, Unset))

\* the calls on schemas of every shape the locator distinguishes
LocatorSpec == InitLocator /\ [][Next]_vars

(***************************************************************************)
(* Vocabulary of the properties.                                           *)
(***************************************************************************)
IsDone(call) == call.pc = "done"

Fulfilled(call) == call.promise.state = "fulfilled"

Rejected(call) == call.promise.state = "rejected"

SeqToSet(seq) == {seq[i] : i \in 1..Len(seq)}

\* the non-root paths of a value
RECURSIVE PathsOf(_)
PathsOf(v) ==
  IF IsContainer(v)
  THEN UNION {{<<v.e[i].k>>} \cup {<<v.e[i].k>> \o p : p \in PathsOf(v.e[i].v)} :
                i \in 1..Len(v.e)}
  ELSE {}

\* a single-schema call and the one run it makes
IsSingleCall(call) == ~IsUnion(shared_schema) /\ IsDone(call)

RunOf(call) == call.attempts[1]

\* the error the caller gets carries a violation of this rule at this path
Carries(call, rule, path) ==
  /\ Rejected(call)
  /\ IsValidationError(call.promise.error)
  /\ \E i \in 1..Len(call.promise.error.errors) :
       /\ call.promise.error.errors[i].rule = rule
       /\ call.promise.error.errors[i].path = formatPath(path)

\* the declared fields (single nodes) without default, required or optional
\* as asked, that are missing
\* from the input, at the top level or inside a declared object that the
\* input holds as an object
RECURSIVE MissingFields(_, _, _, _)
MissingFields(sch, data, prefix, required) ==
  UNION {
    LET key == sch.e[i].k
        node == sch.e[i].v
    IN (IF node.kind = "node" /\ node.required = required
           /\ node.default = Undefined /\ ~Has(data, key)
        THEN {Append(prefix, key)} ELSE {})
       \cup
       (IF TypeIs(node, "object") /\ node.properties.kind = "map"
           /\ IsPlainObject(Get(data, key))
        THEN MissingFields(node.properties, Get(data, key), Append(prefix, key), required)
        ELSE {})
    : i \in 1..Len(sch.e)}

\* fail-fast: the call was rejected before it came to this path, with a
\* violation at a path other than a missing optional field without default
\* (where no violation can arise)
AbortedBefore(call, path) ==
  /\ ~Collects(call.impl, call.options)
  /\ Rejected(call)
  /\ IsValidationError(call.promise.error)
  /\ path \notin SeqToSet(RunOf(call).visited)
  /\ \A q \in MissingFields(shared_schema, call.original, <<>>, FALSE) :
       call.promise.error.errors[1].path # formatPath(q)

\* no violation of any kind was reported at this path
NoReportAt(call, path) ==
  \A i \in 1..Len(RunOf(call).reports) :
    RunOf(call).reports[i].path # formatPath(path)

\* what validating the original input against one member alone gives
Alone(call, member) ==
  ValidateSingle(call.impl, member, call.original, call.options, EmptyCache)

FirstOk(call) ==
  CHOOSE k \in 1..Len(call.attempts) :
    /\ call.attempts[k].ok
    /\ \A j \in 1..(k - 1) : ~call.attempts[j].ok

(* C1: for a schema union the members are attempted in declaration order   *)
(* (the k-th attempt is on member k) and, once the call has ended, the     *)
(* caller holds the result of the first attempt that validated, whatever   *)
(* later members would give; in the engine and convert variants that is    *)
(* the result of validating the input against the first member that        *)
(* accepts it on its own.                                                  *)
C1_FirstValidMemberWins ==
  \A c \in DOMAIN calls :
    IsUnion(shared_schema) =>
      /\ \A k \in 1..Len(calls[c].attempts) : calls[c].attempts[k].i = k
      /\ (IsDone(calls[c]) /\ \E k \in 1..Len(calls[c].attempts) : calls[c].attempts[k].ok)
           => /\ Fulfilled(calls[c])
              /\ calls[c].promise.value = calls[c].attempts[FirstOk(calls[c])].value
      /\ (IsDone(calls[c]) /\ calls[c].impl \in {"engine", "convert"}) =>
           \A k \in 1..Len(shared_schema.alts) :
             (/\ Alone(calls[c], shared_schema.alts[k]).ok
              /\ \A j \in 1..(k - 1) : ~Alone(calls[c], shared_schema.alts[j]).ok)
               => /\ Fulfilled(calls[c])
                  /\ calls[c].promise.value = Alone(calls[c], shared_schema.alts[k]).value

\* the first member validated, and the second would validate too, with
\* another result
C1_Witness ==
  \E c \in DOMAIN calls :
    /\ IsUnion(shared_schema) /\ IsDone(calls[c]) /\ Fulfilled(calls[c])
    /\ calls[c].attempts[1].ok
    /\ Alone(calls[c], shared_schema.alts[2]).ok
    /\ Alone(calls[c], shared_schema.alts[2]).value # calls[c].promise.value

(* C2: a schema-union call is rejected exactly when every member attempt   *)
(* failed; then every member was attempted and the error the caller gets   *)
(* is the error of the last attempt.                                       *)
C2_FailsIffAllMembersFail ==
  \A c \in DOMAIN calls :
    (IsUnion(shared_schema) /\ IsDone(calls[c])) =>
      LET call == calls[c]
          n == Len(call.attempts)
      IN /\ Fulfilled(call) \/ Rejected(call)
         /\ Rejected(call) <=> \A k \in 1..n : ~call.attempts[k].ok
         /\ Rejected(call) =>
              /\ n = Len(shared_schema.alts)
              /\ call.promise.error = call.attempts[n].error
         /\ call.impl \in {"engine", "convert"} =>
              (Rejected(call) <=>
                 \A k \in 1..Len(shared_schema.alts) :
                   ~Alone(call, shared_schema.alts[k]).ok)

\* both members failed, with different errors
C2_Witness ==
  \E c \in DOMAIN calls :
    /\ IsUnion(shared_schema) /\ IsDone(calls[c]) /\ Rejected(calls[c])
    /\ Len(calls[c].attempts) = 2
    /\ calls[c].attempts[1].error # calls[c].attempts[2].error
    /\ calls[c].promise.error = calls[c].attempts[2].error

(* C3: for a union [A, B] and an input that validates against B alone but  *)
(* not against A alone, the call succeeds with the result of validating    *)
(* the original input against B alone.                                     *)
C3_FreshCopyPerMember ==
  \A c \in DOMAIN calls :
    (/\ IsUnion(shared_schema) /\ Len(shared_schema.alts) = 2 /\ IsDone(calls[c])
     /\ ~Alone(calls[c], shared_schema.alts[1]).ok
     /\ Alone(calls[c], shared_schema.alts[2]).ok)
      => /\ Fulfilled(calls[c])
         /\ calls[c].promise.value = Alone(calls[c], shared_schema.alts[2]).value

\* the null fields of the input that the schema declares
NullFields(call) ==
  {p \in PathsOf(call.original) :
     /\ GetAt(call.original, p) = Null
     /\ getSchema(shared_schema, p, Null).kind = "node"}

(* C4: a null at a declared field whose node is not nullable and has no    *)
(* null default makes the call fail with a nullable violation at the       *)
(* field's formatted path (in fail-fast mode unless another violation      *)
(* ended the call before the field was reached); a null at a nullable      *)
(* field, or one whose default is null, is reported nowhere and is null    *)
(* in the output.                                                          *)
C4_NullableContract ==
  \A c \in DOMAIN calls :
    IsSingleCall(calls[c]) =>
      \A p \in NullFields(calls[c]) :
        LET node == getSchema(shared_schema, p, Null)
        IN IF ~node.nullable /\ node.default # Null
           THEN \/ Carries(calls[c], "base.nullable", p)
                \/ AbortedBefore(calls[c], p)
           ELSE /\ NoReportAt(calls[c], p)
                /\ Fulfilled(calls[c]) =>
                     /\ HasAt(calls[c].promise.value, p)
                     /\ GetAt(calls[c].promise.value, p) = Null

(* C5: a missing key whose field is required and has no default, at the    *)
(* top level or inside a declared object present as an object, makes the   *)
(* call fail with a required violation at the field's path (in fail-fast   *)
(* mode unless another violation ended the call before the field was       *)
(* reached).                                                               *)
C5_RequiredMissing ==
  \A c \in DOMAIN calls :
    IsSingleCall(calls[c]) =>
      \A q \in MissingFields(shared_schema, calls[c].original, <<>>, TRUE) :
        \/ Carries(calls[c], "base.required", q)
        \/ AbortedBefore(calls[c], q)

(* C6: a missing key whose field is optional and has no default produces   *)
(* no violation at the field's path, and the output has no such key.       *)
C6_OptionalOmitted ==
  \A c \in DOMAIN calls :
    IsSingleCall(calls[c]) =>
      \A q \in MissingFields(shared_schema, calls[c].original, <<>>, FALSE) :
        /\ NoReportAt(calls[c], q)
        /\ Fulfilled(calls[c]) => ~HasAt(calls[c].promise.value, q)

\* the schema without one of its top-level fields
WithoutField(sch, key) == Map(SelectSeq(sch.e, LAMBDA en : en.k # key))

(* C7: when a top-level field f is required and has default D, the input   *)
(* lacks f and the rest of the input validates, the call succeeds and the  *)
(* output has f = D.                                                       *)
C7_DefaultInjected ==
  \A c \in DOMAIN calls :
    IsSingleCall(calls[c]) =>
      \A i \in 1..Len(shared_schema.e) :
        LET key == shared_schema.e[i].k
            node == shared_schema.e[i].v
        IN (/\ node.kind = "node" /\ node.required /\ node.default # Undefined
            /\ ~Has(calls[c].original, key)
            /\ Alone(calls[c], WithoutField(shared_schema, key)).ok)
             => /\ Fulfilled(calls[c])
                /\ Get(calls[c].promise.value, key) = node.default

\* trim unless disabled, then lowercase, then uppercase, each on the result
\* of the step before
SpecNormalize(node, str) ==
  LET trimmed == IF node.trim.has /\ ~node.trim.b THEN str ELSE Trim(str)
      lowered == IF node.lowercase.has /\ node.lowercase.b
                 THEN ToLowerCase(trimmed) ELSE trimmed
  IN IF node.uppercase.has /\ node.uppercase.b THEN ToUpperCase(lowered) ELSE lowered

\* the top-level string fields of the schema that the input holds a string for
StringFields(call) ==
  {i \in 1..Len(shared_schema.e) :
     /\ TypeIs(shared_schema.e[i].v, "string")
     /\ Get(call.original, shared_schema.e[i].k).t = "string"}

(* C8: the output value of a valid string field is the input trimmed       *)
(* (unless trim = false), then lowercased (if set), then uppercased (if    *)
(* set), each step applied to the result of the previous one.              *)
C8_StringNormalization ==
  \A c \in DOMAIN calls :
    (IsSingleCall(calls[c]) /\ Fulfilled(calls[c])) =>
      \A i \in StringFields(calls[c]) :
        LET key == shared_schema.e[i].k
        IN Get(calls[c].promise.value, key) =
             Str(SpecNormalize(shared_schema.e[i].v, Get(calls[c].original, key).s))

\* the enum, pattern and length rules of a string node, on a normalized value
SpecStringValid(node, value) ==
  /\ node.enum.has =>
       \E j \in 1..Len(node.enum.items) : SpecNormalize(node, node.enum.items[j]) = value
  /\ node.pattern.has => RegexTest(node.pattern.p, value)
  /\ node.min.has => Len(value) >= node.min.n
  /\ node.max.has => Len(value) <= node.max.n

(* C9: a schema of one string field accepts a string input exactly when    *)
(* the normalized input satisfies enum (against normalized candidates),    *)
(* pattern, min length and max length.                                     *)
C9_ChecksAfterNormalization ==
  \A c \in DOMAIN calls :
    (IsSingleCall(calls[c]) /\ Len(shared_schema.e) = 1 /\ StringFields(calls[c]) = {1}) =>
      LET node == shared_schema.e[1].v
          str == Get(calls[c].original, shared_schema.e[1].k).s
      IN Fulfilled(calls[c]) <=> SpecStringValid(node, SpecNormalize(node, str))

\* the schema with one of its top-level fields only
OnlyField(sch, key) == Map(SelectSeq(sch.e, LAMBDA en : en.k = key))

\* the violations a field gives when it is the only declared field
ViolationsOf(call, key) ==
  LET out == Alone(call, OnlyField(shared_schema, key))
  IN IF out.ok THEN <<>> ELSE out.error.errors

\* the value at every proper prefix of the path is the container its node asks for
AncestorsFit(call, p) ==
  \A k \in 1..(Len(p) - 1) :
    LET a == SubSeq(p, 1, k)
        value == GetAt(call.original, a)
        node == getSchema(shared_schema, a, value)
    IN /\ node.kind = "node"
       /\ \/ node.type = "object" /\ IsPlainObject(value)
          \/ node.type = "array" /\ IsArray(value)

\* the paths of the input that the schema declares, under well-typed ancestors
DeclaredPaths(call) ==
  {p \in PathsOf(call.original) :
     /\ getSchema(shared_schema, p, GetAt(call.original, p)).kind = "node"
     /\ AncestorsFit(call, p)}

(* C10: in collection mode (abort_early = false) a single-schema run       *)
(* reaches every declared top-level field and every declared path of the   *)
(* input, and the call fails exactly when a violation was found, with one  *)
(* error carrying every violation found, in the order found; with two      *)
(* top-level fields the violations are those of the one field plus those   *)
(* of the other.                                                           *)
C10_CollectsEveryViolation ==
  \A c \in DOMAIN calls :
    (IsSingleCall(calls[c]) /\ Collects(calls[c].impl, calls[c].options)) =>
      LET call == calls[c]
          run == RunOf(call)
      IN /\ run.reports = <<>> => Fulfilled(call)
         /\ run.reports # <<>> =>
              /\ Rejected(call)
              /\ IsValidationError(call.promise.error)
              /\ call.promise.error.errors = run.reports
         /\ \A i \in 1..Len(shared_schema.e) :
              <<shared_schema.e[i].k>> \in SeqToSet(run.visited)
         /\ DeclaredPaths(call) \subseteq SeqToSet(run.visited)
         /\ Len(shared_schema.e) = 2 =>
              LET one == ViolationsOf(call, shared_schema.e[1].k)
                  other == ViolationsOf(call, shared_schema.e[2].k)
              IN /\ Len(run.reports) = Len(one) + Len(other)
                 /\ SeqToSet(run.reports) = SeqToSet(one) \cup SeqToSet(other)

\* a field failed its object or array type check, the sibling visited after
\* it violated a rule too, and the error carries exactly these two
C10_Witness ==
  \E c \in DOMAIN calls :
    /\ IsSingleCall(calls[c]) /\ Collects(calls[c].impl, calls[c].options)
    /\ Rejected(calls[c])
    /\ Len(calls[c].promise.error.errors) = 2
    /\ calls[c].promise.error.errors[1].rule \in {"object.type", "array.type"}
    /\ calls[c].promise.error.errors[2].rule = "number.type"
    /\ calls[c].promise.error.errors[2].path = formatPath(<<"g">>)

\* the object a single-schema run works on: the traverse variants seed the
\* caller's object first, the convert variant only reads it
WorkedOn(call) ==
  IF call.impl = "convert" THEN call.original
  ELSE seedMissingProperties(shared_schema, call.original)

(* C11: in fail-fast mode (abort_early true or unset) a run that reports a *)
(* violation fails with an error carrying that violation only, the         *)
(* violation's path is the last path the run came to, and in a             *)
(* single-schema call the caller gets that error and every path the run    *)
(* did not come to holds the value it held before.                         *)
C11_FailFast ==
  \A c \in DOMAIN calls :
    ~Collects(calls[c].impl, calls[c].options) =>
      /\ \A k \in 1..Len(calls[c].attempts) :
           LET run == calls[c].attempts[k]
           IN run.reports # <<>> =>
                /\ ~run.ok
                /\ Len(run.reports) = 1
                /\ run.error = ValidationErrorOf(run.reports)
                /\ formatPath(run.visited[Len(run.visited)]) = run.reports[1].path
      /\ (IsSingleCall(calls[c]) /\ RunOf(calls[c]).reports # <<>>) =>
           /\ Rejected(calls[c])
           /\ calls[c].promise.error = ValidationErrorOf(RunOf(calls[c]).reports)
           /\ \A p \in PathsOf(WorkedOn(calls[c])) \ SeqToSet(RunOf(calls[c]).visited) :
                /\ HasAt(calls[c].input, p)
                /\ GetAt(calls[c].input, p) = GetAt(WorkedOn(calls[c]), p)

\* abort_early = true: the field visited first is of the wrong kind and the
\* call ended there, before the sibling, which is of the wrong kind too
C11_Witness ==
  \E c \in DOMAIN calls :
    /\ IsSingleCall(calls[c]) /\ calls[c].options.abort_early = SomeBool(TRUE)
    /\ calls[c].impl = "part001"
    /\ Rejected(calls[c])
    /\ Len(calls[c].promise.error.errors) = 1
    /\ MapHas(shared_schema, "g")
    /\ Get(calls[c].original, "g") = Str(<<"t">>)
    /\ <<"g">> \notin SeqToSet(RunOf(calls[c]).visited)

(* C12: a run that reports a violation ends with a validation error made   *)
(* of reported violations and with no value, and a run that ends with a    *)
(* value reported none; the caller's promise never holds both a value and  *)
(* an error, a value it holds is the value of a run that reported no       *)
(* violation, and a single-schema call is fulfilled exactly when its run   *)
(* gave a value.                                                           *)
C12_ValueXorError ==
  \A c \in DOMAIN calls :
    /\ \A k \in 1..Len(calls[c].attempts) :
         LET run == calls[c].attempts[k]
         IN /\ run.ok => (run.reports = <<>> /\ run.error = PlainError("none"))
            /\ ~run.ok => run.value = Undefined
            /\ run.reports # <<>> =>
                 /\ ~run.ok
                 /\ IsValidationError(run.error)
                 /\ run.error.errors # <<>>
                 /\ SeqToSet(run.error.errors) \subseteq SeqToSet(run.reports)
    /\ Fulfilled(calls[c]) =>
         /\ calls[c].promise.error = PlainError("none")
         /\ \E k \in 1..Len(calls[c].attempts) :
              /\ calls[c].attempts[k].ok
              /\ calls[c].attempts[k].reports = <<>>
              /\ calls[c].promise.value = calls[c].attempts[k].value
    /\ Rejected(calls[c]) =>
         /\ calls[c].promise.value = Undefined
         /\ calls[c].promise.error # PlainError("none")
    /\ IsSingleCall(calls[c]) =>
         /\ Fulfilled(calls[c]) <=> RunOf(calls[c]).ok
         /\ Rejected(calls[c]) <=> ~RunOf(calls[c]).ok

\* the run changed the caller's object and then found a violation: the
\* caller gets the error and no value
C12_Witness ==
  \E c \in DOMAIN calls :
    /\ IsSingleCall(calls[c]) /\ calls[c].impl = "engine"
    /\ RunOf(calls[c]).reports # <<>>
    /\ calls[c].input # WorkedOn(calls[c])
    /\ Rejected(calls[c])
    /\ calls[c].promise.value = Undefined

\* the schema with every top-level field union replaced by the candidate
\* the resolver selects for the field's value
ResolvedFields(sch, data) ==
  Map([i \in 1..Len(sch.e) |->
         IF IsUnion(sch.e[i].v)
         THEN Entry(sch.e[i].k,
                    findMatchedSchema(sch.e[i].v.alts, Get(data, sch.e[i].k)))
         ELSE sch.e[i]])

\* the top-level array fields whose items is a union and that hold an array
ItemsUnionFields(call) ==
  {i \in 1..Len(shared_schema.e) :
     /\ TypeIs(shared_schema.e[i].v, "array")
     /\ IsUnion(shared_schema.e[i].v.items)
     /\ IsArray(Get(call.original, shared_schema.e[i].k))}

\* element j of the array at field key validated on its own against the
\* candidate the resolver selects for it
OneItem(call, key, alts, j) ==
  LET element == Get(Get(call.original, key), IndexKey(j))
  IN ValidateSingle(call.impl,
                    Map(<<Entry(key, ArrayNode(findMatchedSchema(alts, element)))>>),
                    Obj(<<Entry(key, ArrayOf(<<element>>))>>), call.options, EmptyCache)

SpecMatches(candidate, value) ==
  IF value = Null THEN candidate.nullable
  ELSE CASE candidate.type = "date" -> value.t \in {"string", "date"}
         [] candidate.type = "array" -> value.t = "array"
         [] candidate.type = "object" -> value.t = "object"
         [] OTHER -> value.t = candidate.type

\* first structural match in declaration order, candidates[0] otherwise
SpecResolve(candidates, value) ==
  IF value = Undefined
     \/ ~\E i \in 1..Len(candidates) : SpecMatches(candidates[i], value)
  THEN candidates[1]
  ELSE candidates[CHOOSE i \in 1..Len(candidates) :
                    /\ SpecMatches(candidates[i], value)
                    /\ \A j \in 1..(i - 1) : ~SpecMatches(candidates[j], value)]

\* the schema with every top-level field union replaced by the candidate
\* the specification's resolver selects
SpecResolvedFields(sch, data) ==
  Map([i \in 1..Len(sch.e) |->
         IF IsUnion(sch.e[i].v)
         THEN Entry(sch.e[i].k, SpecResolve(sch.e[i].v.alts, Get(data, sch.e[i].k)))
         ELSE sch.e[i]])

\* the unions a single-schema run resolved, each with the value it was
\* resolved for and the path of the value
ResolvedUnions(call) ==
  {[alts |-> shared_schema.e[i].v.alts, value |-> Get(call.original, shared_schema.e[i].k),
    path |-> <<shared_schema.e[i].k>>] :
     i \in {k \in 1..Len(shared_schema.e) : IsUnion(shared_schema.e[k].v)}}
  \cup
  {[alts |-> shared_schema.e[i[1]].v.items.alts,
    value |-> Get(Get(call.original, shared_schema.e[i[1]].k), IndexKey(i[2])),
    path |-> <<shared_schema.e[i[1]].k, IndexKey(i[2])>>] :
     i \in {x \in ItemsUnionFields(call) \X (0..MaxItems) :
              x[2] < Get(call.original, shared_schema.e[x[1]].k).len}}

(* C14: the candidate a run resolves a union to for a value is the first   *)
(* candidate in declaration order that matches the value structurally      *)
(* (null: nullable candidate; date candidate: string or date value; array  *)
(* candidate: array; object candidate: key-value object; otherwise same    *)
(* kind), or the first candidate when none matches or the value is absent; *)
(* it is one of the candidates, and a call on a schema with field unions   *)
(* ends as the call on the schema with each union replaced by that         *)
(* candidate.                                                              *)
C14_UnionResolver ==
  \A c \in DOMAIN calls :
    (IsSingleCall(calls[c]) /\ ~HasTypeKey(shared_schema)) =>
      /\ \A u \in ResolvedUnions(calls[c]) :
           /\ findMatchedSchema(u.alts, u.value) = SpecResolve(u.alts, u.value)
           /\ calls[c].impl # "convert" =>
                getSchema(shared_schema, u.path, u.value) = SpecResolve(u.alts, u.value)
           /\ \E k \in 1..Len(u.alts) : findMatchedSchema(u.alts, u.value) = u.alts[k]
      /\ (\E i \in 1..Len(shared_schema.e) : IsUnion(shared_schema.e[i].v)) =>
           RunOf(calls[c]).ok =
             Alone(calls[c], SpecResolvedFields(shared_schema, calls[c].original)).ok

\* the paths of the keys the input holds and the schema does not declare, at
\* the top level, inside a declared object and inside an object element of
\* a declared array
RECURSIVE UnknownKeys(_, _, _)
UnknownKeys(sch, data, prefix) ==
  {Append(prefix, data.e[i].k) :
     i \in {j \in 1..Len(data.e) : ~MapHas(sch, data.e[j].k)}}
  \cup
  UNION {
    LET key == sch.e[i].k
        node == sch.e[i].v
        value == Get(data, key)
    IN IF TypeIs(node, "object") /\ IsPlainObject(value)
         THEN UnknownKeys(node.properties, value, Append(prefix, key))
       ELSE IF TypeIs(node, "array") /\ TypeIs(node.items, "object") /\ IsArray(value)
         THEN UNION {UnknownKeys(node.items.properties, value.e[j].v,
                                 <<key, value.e[j].k>>) :
                       j \in {n \in 1..Len(value.e) : IsPlainObject(value.e[n].v)}}
       ELSE {}
    : i \in 1..Len(sch.e)}

IsPrefix(p, q) == Len(p) <= Len(q) /\ SubSeq(q, 1, Len(p)) = p

Again(call) ==
  ValidateSingle(call.impl, shared_schema, call.promise.value, call.options, regexes)

(* C16: when a single-schema call has succeeded with value v, validating v *)
(* against the same schema with the same options succeeds too and gives a  *)
(* value equal to v.                                                       *)
C16_Idempotent ==
  \A c \in DOMAIN calls :
    (IsSingleCall(calls[c]) /\ Fulfilled(calls[c])) =>
      /\ Again(calls[c]).ok
      /\ Again(calls[c]).value = calls[c].promise.value

\* v >= 0 and v < 0 on the numbers: NaN is neither
SpecAtLeastZero(v) == ~IsNaN(v) /\ 2 * v.n + (IF v.half THEN 1 ELSE 0) >= 0

SpecBelowZero(v) == ~IsNaN(v) /\ 2 * v.n + (IF v.half THEN 1 ELSE 0) < 0

\* a schema of one number field f that the input holds a number for
OneNumberField(call) ==
  /\ IsSingleCall(call)
  /\ ~HasTypeKey(shared_schema) /\ Len(shared_schema.e) = 1
  /\ shared_schema.e[1].k = "f" /\ TypeIs(shared_schema.e[1].v, "number")
  /\ Get(call.original, "f").t = "number"

(* C17: a number field with positive = true and no other rule accepts      *)
(* exactly the numbers >= 0, and one with negative = true and no other     *)
(* rule accepts exactly the numbers < 0; 0 with negative = true is         *)
(* rejected with the not-negative violation.                               *)
C17_PositiveNegative ==
  \A c \in DOMAIN calls :
    OneNumberField(calls[c]) =>
      LET node == shared_schema.e[1].v
          v == Get(calls[c].original, "f")
      IN /\ (IsTrue(node.positive) /\ ~IsTrue(node.negative) /\ ~IsTrue(node.integer)) =>
              (Fulfilled(calls[c]) <=> SpecAtLeastZero(v))
         /\ (IsTrue(node.negative) /\ ~IsTrue(node.positive) /\ ~IsTrue(node.integer)) =>
              /\ Fulfilled(calls[c]) <=> SpecBelowZero(v)
              /\ v = Num(0) => Carries(calls[c], "number.negative", <<"f">>)

(* C18: no step of a validate call changes the schema: every node, enum    *)
(* list and default of the schema is after the step what it was before.    *)
C18_SchemaUnchanged == [][shared_schema' = shared_schema]_vars

\* the caller's promise is resolved or rejected and the call has nothing
\* left to run
Settled(call) == IsDone(call) /\ (Fulfilled(call) \/ Rejected(call))

(* C19: every validate call eventually settles: it ends resolved with a    *)
(* value or rejected with an error, on a single schema and on a schema     *)
(* union, also when every member fails and when copying the input fails.   *)
C19_EventuallySettles == <>(\A c \in DOMAIN calls : Settled(calls[c]))

\* a union call whose input could not be copied for any member ended
\* rejected with the error of the copy
C19_Witness ==
  \E c \in DOMAIN calls :
    /\ IsUnion(shared_schema) /\ Settled(calls[c]) /\ Rejected(calls[c])
    /\ CloneThrows(calls[c].original)
    /\ calls[c].promise.error = PlainError("clone")

\* the for loop of a union call that runs with no other call: run holds the
\* schema, the pattern cache and the input as the attempts so far left them
RECURSIVE AloneLoop(_, _, _)
AloneLoop(call, i, run) ==
  IF i > Len(run.schema.alts) THEN
    IF call.impl = "engine" /\ run.passed THEN run.promise
    ELSE reject(run.promise, run.last_error)
  ELSE IF call.impl = "engine" /\ CloneThrows(run.input) THEN
    AloneLoop(call, i + 1, [run EXCEPT !.last_error = PlainError("clone")])
  ELSE Once(ValidateSingle(call.impl, run.schema.alts[i],
                           MemberInput(call.impl, run.input), call.options,
                           run.cache),
            LAMBDA out :
              IF out.ok /\ call.impl # "engine"
              THEN resolve(run.promise, out.value)
              ELSE AloneLoop(call, i + 1,
                     [run EXCEPT !.schema.alts[i] = SchemaAfter(@, out),
                                 !.cache = out.regexes,
                                 !.input = IF call.impl = "engine" THEN @
                                           ELSE out.data,
                                 !.promise = IF out.ok THEN resolve(@, out.value)
                                             ELSE @,
                                 !.passed = @ \/ out.ok,
                                 !.last_error = IF out.ok THEN @ ELSE out.error]))

\* the promise of the call had it run alone on the schema and the input it
\* was given, with an empty pattern cache
RunAlone(call) ==
  IF IsUnion(call.given)
  THEN AloneLoop(call, 1,
                 [schema |-> call.given, cache |-> EmptyCache, input |-> call.original,
                  promise |-> Pending, last_error |-> PlainError("new"),
                  passed |-> FALSE])
  ELSE Once(ValidateSingle(call.impl, call.given, call.original, call.options, EmptyCache),
            LAMBDA out : IF out.ok THEN resolve(Pending, out.value)
                         ELSE reject(Pending, out.error))

(* C20: two calls on distinct inputs that share the schema and the pattern *)
(* cache do not affect each other: in whatever order their deferred steps  *)
(* run, each call ends with the promise it ends with when it runs alone.   *)
C20_CallsIndependent ==
  \A c \in DOMAIN calls : IsDone(calls[c]) => calls[c].promise = RunAlone(calls[c])

\* the cache holds one entry for each pattern of the set req, compiled from
\* the pattern it is stored under, and no pattern was compiled twice
CacheMaps(req) ==
  /\ {r.pattern : r \in regexes.entries} = req
  /\ \A r \in regexes.entries : r.source = r.pattern
  /\ \A r1, r2 \in regexes.entries : r1.pattern = r2.pattern => r1 = r2
  /\ regexes.compiled = Cardinality(regexes.entries)

\* no step removes or replaces an entry
CacheKept == regexes.entries \subseteq regexes'.entries

(* C21 as stated: at every moment the pattern cache maps exactly the        *)
(* patterns looked up so far, each to the expression compiled from that    *)
(* same string; no entry is ever removed or replaced, and a repeated        *)
(* lookup compiles nothing.                                                 *)
C21_PatternCache == [](CacheMaps(regexes.requested)) /\ [][CacheKept]_vars

(* C21 amended: at every moment the pattern cache maps exactly the         *)
(* patterns looked up so far that compile (a lookup of a pattern that does *)
(* not compile throws and stores nothing), each to the expression compiled *)
(* from that same string; no entry is ever removed or replaced, and a      *)
(* repeated lookup compiles nothing.                                       *)
C21_CompiledPatternCache ==
  /\ [](CacheMaps({p \in regexes.requested : RegexCompiles(p)}))
  /\ [][CacheKept]_vars

\* two calls have each looked up the same two patterns, one of the calls
\* after the other had stored them
C21_Witness ==
  /\ \A c \in DOMAIN calls : IsDone(calls[c]) /\ Fulfilled(calls[c])
                              /\ calls[c].impl = "convert"
  /\ Cardinality(DOMAIN calls) = 2
  /\ regexes.requested = {LowerOnly, NoSpace}
  /\ regexes.compiled = 2

\* the path text the documentation gives for a sequence of keys: an
\* all-digit key as [key], any other key after a '.', the first key after
\* nothing
RECURSIVE SpecPathFrom(_, _)
SpecPathFrom(first, keys) ==
  IF keys = <<>> THEN <<>>
  ELSE (IF IsIndexKey(Head(keys)) THEN <<"[", Head(keys), "]">>
        ELSE IF first THEN KeyText(Head(keys))
        ELSE <<".">> \o KeyText(Head(keys)))
       \o SpecPathFrom(FALSE, Tail(keys))

SpecPath(keys) == SpecPathFrom(TRUE, keys)

RECURSIVE DropLeadingEmpty(_)
DropLeadingEmpty(keys) ==
  IF keys # <<>> /\ Head(keys) = "" THEN DropLeadingEmpty(Tail(keys)) ELSE keys

Placeholder(rule) ==
  IF rule \in {"string.min", "number.min", "date.min", "array.min"} THEN <<"min">>
  ELSE IF rule \in {"string.max", "number.max", "date.max", "array.max"} THEN <<"max">>
  ELSE IF rule = "string.pattern" THEN <<"pattern">>
  ELSE <<>>

\* the names of the parts of a violation after the path, the plural suffix
\* aside
PartNames(item) ==
  SelectSeq([i \in 1..Len(item.parts) - 1 |-> item.parts[i + 1].k],
            LAMBDA k : k # "plural_suffix")

(* C23: the message of every violation a run reports is expanded from the  *)
(* template of the violation's own category and rule, and its parts hold   *)
(* the path and the value of that template's own placeholder.              *)
C23_OwnTemplate ==
  \A c \in DOMAIN calls :
    \A n \in 1..Len(calls[c].attempts) :
      LET run == calls[c].attempts[n]
      IN \A r \in 1..Len(run.reports) :
           ~IsRaise(run.reports[r]) =>
             /\ run.reports[r].tmpl = run.reports[r].rule
             /\ run.reports[r].parts[1] = Part("path", run.reports[r].path)
             /\ PartNames(run.reports[r]) = Placeholder(run.reports[r].rule)

\* a generic error that carries the failure it wraps as its cause
IsWrapping(error) ==
  /\ error.type = "Error"
  /\ "cause" \in DOMAIN error
  /\ ~IsValidationError(error.cause)

(* C24: a call that fails is rejected either with a structured violation   *)
(* error, unwrapped, or with a generic error that wraps the original       *)
(* failure as its cause.                                                   *)
C24_FailuresWrapped ==
  \A c \in DOMAIN calls :
    (calls[c].pc = "done" /\ calls[c].promise.state = "rejected") =>
      \/ IsValidationError(calls[c].promise.error)
      \/ IsWrapping(calls[c].promise.error)

\* the declared property p of the items of the array field arr of a single
\* schema, or of the last member of a union of schemas
ElementNodeOf(schema) ==
  LET single == IF IsUnion(schema) THEN schema.alts[Len(schema.alts)]
                ELSE schema
  IN MapGet(MapGet(single, "arr").items.properties, "p")

\* the violations a rejected call surfaces
SurfacedViolations(call) ==
  IF call.promise.state = "rejected" /\ IsValidationError(call.promise.error)
  THEN call.promise.error.errors ELSE <<>>

\* the call surfaces the violation of rule at the key sequence keys, or it
\* stops at the first violation and surfaces one of an earlier element
SurfacesAt(call, rule, keys, i) ==
  LET errors == SurfacedViolations(call)
  IN \/ \E r \in 1..Len(errors) :
          errors[r].rule = rule /\ errors[r].path = formatPath(keys)
     \/ /\ ~Collects(call.impl, call.options)
        /\ \E r \in 1..Len(errors), j \in 0..(i - 1) :
             errors[r].path = formatPath(<<"arr", IndexKey(j), "p">>)

(* C25: every element of an array whose items is an object node is         *)
(* validated like a declared object field: an element that lacks a         *)
(* required property without default makes the call fail with the          *)
(* required-missing violation at arr[i].prop, and a missing property with  *)
(* a default is filled in.                                                 *)
C25_ElementsValidated ==
  \A c \in DOMAIN calls :
    LET call == calls[c]
        arr == Get(call.original, "arr")
        node == ElementNodeOf(call.given)
    IN (call.pc = "done" /\ arr.t = "array") =>
         \A i \in 0..(arr.len - 1) :
           ~Has(Get(arr, IndexKey(i)), "p") =>
             IF node.default = Undefined
             THEN SurfacesAt(call, "base.required", <<"arr", IndexKey(i), "p">>, i)
             ELSE call.promise.state = "fulfilled" =>
                    GetAt(call.promise.value, <<"arr", IndexKey(i), "p">>)
                      = node.default

\* the node the documentation declares at a path: a field of a mapping by
\* its name, a key of an object node in its properties, an index of an array
\* node in its items, a union on the way member by member, a union at the
\* end resolved against the value
RECURSIVE Locate(_, _, _)
RECURSIVE LocateFirst(_, _, _, _)
LocateFirst(alts, i, path, value) ==
  IF i > Len(alts) THEN NoThing
  ELSE IF Locate(alts[i], path, value) # NoThing THEN Locate(alts[i], path, value)
  ELSE LocateFirst(alts, i + 1, path, value)

Locate(schema, path, value) ==
  IF path = <<>>
  THEN IF IsUnion(schema) THEN findMatchedSchema(schema.alts, value) ELSE schema
  ELSE IF IsUnion(schema) THEN LocateFirst(schema.alts, 1, path, value)
  ELSE IF schema.kind = "map"
    THEN IF MapHas(schema, Head(path))
         THEN Locate(MapGet(schema, Head(path)), Tail(path), value)
         ELSE NoThing
  ELSE IF schema.type = "object" THEN Locate(schema.properties, path, value)
  ELSE IF schema.type = "array" /\ IsIndexKey(Head(path))
    THEN Locate(schema.items, Tail(path), value)
  ELSE NoThing

\* the key sequences a call looked up, and each with one more key
LookedUp(call) ==
  LET seen == UNION {{call.attempts[n].visited[v] :
                        v \in 1..Len(call.attempts[n].visited)} :
                     n \in 1..Len(call.attempts)}
  IN seen \cup {Append(p, k) : p \in seen, k \in {"a", "0"}}

(* C26: for every key sequence a call looks up, and the value found there, *)
(* getSchema returns the node declared at that path, and not-found where   *)
(* none is declared.                                                       *)
C26_SchemaLocator ==
  \A c \in DOMAIN calls :
    \A path \in LookedUp(calls[c]) :
      \A value \in {Undefined, Null, GetAt(calls[c].original, path)} :
        getSchema(calls[c].given, path, value)
          = Locate(calls[c].given, path, value)

\* the place of a check in the documented order of its category
Rank(rule) ==
  CASE rule \in {"string.type", "number.type", "array.type", "boolean.type"} -> 1
    [] rule \in {"string.enum", "number.enum", "array.min"} -> 2
    [] rule \in {"string.pattern", "number.min", "array.max"} -> 3
    [] rule \in {"string.min", "number.max"} -> 4
    [] rule \in {"string.max", "number.integer"} -> 5
    [] rule = "number.positive" -> 6
    [] rule = "number.negative" -> 7
    [] OTHER -> 0

\* the schema of a run of a call: the schema itself, or the member tried
RunSchema(call, run) ==
  IF IsUnion(call.given) THEN call.given.alts[run.i] ELSE call.given

\* the checks of a node that a value fails, by the documented meaning of
\* each check; a value of the wrong type fails the type check only
FailedChecks(node, value) ==
  IF value.t # node.type THEN {node.type \o ".type"}
  ELSE IF node.type = "string" THEN
    {rule \in {"string.enum", "string.pattern", "string.min", "string.max"} :
       \/ rule = "string.enum" /\ node.enum.has
            /\ value.s \notin SeqToSet(node.enum.items)
       \/ rule = "string.pattern" /\ node.pattern.has
            /\ ~RegexTest(node.pattern.p, value.s)
       \/ rule = "string.min" /\ node.min.has /\ Len(value.s) < node.min.n
       \/ rule = "string.max" /\ node.max.has /\ Len(value.s) > node.max.n}
  ELSE IF node.type = "number" THEN
    {rule \in {"number.enum", "number.min", "number.max", "number.integer",
               "number.positive", "number.negative"} :
       \/ rule = "number.enum" /\ node.enum.has
            /\ value \notin SeqToSet(node.enum.items)
       \/ rule = "number.min" /\ node.min.has /\ NumLess(value, node.min.n)
       \/ rule = "number.max" /\ node.max.has /\ NumGreater(value, node.max.n)
       \/ rule = "number.integer" /\ IsTrue(node.integer) /\ ~IsInteger(value)
       \/ rule = "number.positive" /\ IsTrue(node.positive) /\ NumLess(value, 0)
       \/ rule = "number.negative" /\ IsTrue(node.negative)
            /\ NumAtLeast(value, 0)}
  ELSE IF node.type = "array" THEN
    {rule \in {"array.min", "array.max"} :
       \/ rule = "array.min" /\ node.min.has /\ value.len < node.min.n
       \/ rule = "array.max" /\ node.max.has /\ value.len > node.max.n}
  ELSE {}

\* the rules of the violations a run reported, in the order of the reports
ReportedRules(run) == [r \in 1..Len(run.reports) |-> run.reports[r].rule]

(* C27: of the checks that the value of a field fails, a collecting run    *)
(* reports every one, in the documented order of the checks, and a         *)
(* fail-fast run reports the one earliest in that order and nothing else.  *)
C27_CheckOrder ==
  \A c \in DOMAIN calls :
    \A n \in 1..Len(calls[c].attempts) :
      LET run == calls[c].attempts[n]
          failed == FailedChecks(MapGet(RunSchema(calls[c], run), "f"),
                                 Get(run.before, "f"))
          rules == ReportedRules(run)
      IN IF Collects(calls[c].impl, calls[c].options)
         THEN /\ SeqToSet(rules) = failed
              /\ \A r1, r2 \in 1..Len(rules) :
                   r1 < r2 => Rank(rules[r1]) < Rank(rules[r2])
         ELSE IF failed = {} THEN rules = <<>>
         ELSE /\ Len(rules) = 1
              /\ rules[1] \in failed
              /\ \A rule \in failed : Rank(rules[1]) <= Rank(rule)

\* a collecting run reported enum, min, max, integer and negative for one
\* number, in that order
C27_Witness ==
  \E c \in DOMAIN calls :
    /\ calls[c].pc = "done"
    /\ Collects(calls[c].impl, calls[c].options)
    /\ \E n \in 1..Len(calls[c].attempts) :
         LET run == calls[c].attempts[n]
         IN ReportedRules(run)
              = <<"number.enum", "number.min", "number.max", "number.integer",
                  "number.negative">>

(* C28: when a call has failed, the object the caller handed in is exactly *)
(* as it was when the call was made.                                       *)
C28_InputUntouchedOnFailure ==
  \A c \in DOMAIN calls :
    (calls[c].pc = "done" /\ Rejected(calls[c])) =>
      calls[c].input = calls[c].original

(* C29: the members a call on a union of schemas has attempted are the     *)
(* members in their order, one attempt each, and none after an attempt     *)
(* that succeeded.                                                         *)
C29_StopsAtFirstSuccess ==
  \A c \in DOMAIN calls :
    IsUnion(calls[c].given) =>
      \A n \in 1..Len(calls[c].attempts) :
        /\ calls[c].attempts[n].i = n
        /\ n < Len(calls[c].attempts) => ~calls[c].attempts[n].ok

(* C30: a call on a single schema that declares a field named type fails   *)
(* when the string declared under that name holds a number, or the number  *)
(* declared under g.a holds a string: every declared field is located and  *)
(* validated, whatever its name.                                           *)
C30_FieldNamedType ==
  \A c \in DOMAIN calls :
    (calls[c].pc = "done" /\ ~IsUnion(calls[c].given)
       /\ MapHas(calls[c].given, "type")) =>
      /\ Get(calls[c].original, "type").t # "string"
           => Carries(calls[c], "string.type", <<"type">>)
                \/ (~Collects(calls[c].impl, calls[c].options) /\ Rejected(calls[c]))
      /\ GetAt(calls[c].original, <<"g", "a">>).t # "number"
           => Carries(calls[c], "number.type", <<"g", "a">>)
                \/ (~Collects(calls[c].impl, calls[c].options) /\ Rejected(calls[c]))

====
